---- MODULE Spec2Model ----
(***************************************************************************)
(* Model of the UnifiMessenger message bus (MessageManager) and of the     *)
(* adapters it talks to.  JavaScript values are tagged tuples so that a    *)
(* number, a string and undefined are three different values, Maps are     *)
(* insertion-ordered sequences of key/value entries, and every async       *)
(* function is cut at its awaits: one action per synchronous segment.      *)
(***************************************************************************)
EXTENDS Integers, Sequences, FiniteSets, TLC

\* ------------------------------------------------------------------ bounds
\* how many operations the bus's environment starts in one behaviour: the
\* registrations, the messages the adapters emit, the consumers' calls and
\* the clock's ticks; the completions of what they started are not counted
MaxOps == 3

\* ------------------------------------------------------- JavaScript values
Undefined == <<"undefined">>
Null      == <<"null">>
Str(s)    == <<"string", s>>
Num(n)    == <<"number", n>>
Bool(b)   == <<"boolean", b>>
Arr(s)    == <<"array", s>>
Obj(r)    == <<"object", r>>
Uuid(n)   == <<"string", <<"uuid", n>> >>

IsNullish(v) == v[1] \in {"undefined", "null"}

\* ToBoolean, as used by ||, if (...) and !x
Truthy(v) ==
  CASE v[1] = "undefined" -> FALSE
    [] v[1] = "null"      -> FALSE
    [] v[1] = "string"    -> v[2] # <<>>
    [] v[1] = "number"    -> v[2] # 0
    [] v[1] = "boolean"   -> v[2]
    [] OTHER              -> TRUE

\* a || b
Or(a, b) == IF Truthy(a) THEN a ELSE b

\* o.f on a plain object held in a record: a missing property is undefined
Get(r, f) == IF f \in DOMAIN r THEN r[f] ELSE Undefined

\* v.f where v is a JavaScript value; reading a property of undefined or
\* null throws a TypeError, which the callers test with IsNullish first
Prop(v, f) == IF v[1] = "object" THEN Get(v[2], f) ELSE Undefined

\* String.prototype.startsWith / includes on sequences of characters
StartsWith(s, p) == Len(s) >= Len(p) /\ SubSeq(s, 1, Len(p)) = p
Includes(s, p)   == \E i \in 0..(Len(s) - Len(p)) : SubSeq(s, i + 1, i + Len(p)) = p

\* ------------------------------------------------------------ Map helpers
MapHas(m, k) == \E i \in 1..Len(m) : m[i].key = k
MapIdx(m, k) == CHOOSE i \in 1..Len(m) : m[i].key = k
MapGet(m, k) == IF MapHas(m, k) THEN m[MapIdx(m, k)].value ELSE Undefined
MapSet(m, k, v) ==
  IF MapHas(m, k) THEN [m EXCEPT ![MapIdx(m, k)].value = v]
  ELSE Append(m, [key |-> k, value |-> v])
MapValues(m) == [i \in 1..Len(m) |-> m[i].value]

\* ---------------------------------------------------------------- strings
S_ai_at   == <<"@", "a", "i">>
S_ai_cmd  == <<"/", "a", "i">>
S_global  == <<"g", "l", "o", "b", "a", "l">>
S_bot     == <<"b", "o", "t">>
S_media   == <<"[", "M", "e", "d", "i", "a", "]">>
S_unknown == <<"u", "n", "k", "n", "o", "w", "n">>
S_Unknown == <<"U", "n", "k", "n", "o", "w", "n">>
S_UnknownContent == <<"[", "U", "n", "k", "n", "o", "w", "n", "]">>
S_UnifiMessenger == <<"U", "n", "i", "f", "i", "M", "e", "s", "s", "e", "n", "g", "e", "r">>
S_hello   == <<"h", "e", "l", "l", "o">>
S_weather == <<"@", "a", "i", " ", "w", "h", "a", "t", "'", "s", " ", "t", "h", "e", " ",
               "w", "e", "a", "t", "h", "e", "r">>
S_cmd     == <<"/", "a", "i", " ", "h", "i">>
S_midcmd  == <<"s", "a", "y", " ", "/", "a", "i">>
S_reply   == <<"o", "k">>
S_c1      == <<"C", "1">>
S_c2      == <<"C", "2">>
S_alice   == <<"a", "l", "i", "c", "e">>
S_team    == <<"T", "e", "a", "m">>

\* --------------------------------------------------------------- the inputs
Platforms == {"telegram", "slack", "discord", "other"}

\* an adapter instance: the platform it binds and an instance number
Instances == {1, 2}
Adapters == Platforms \X Instances
KindOf(a) == a[1]

\* Telegram chat ids are numbers, the other platforms' channel ids strings
ChannelIdsOf(p) == IF p = "telegram" THEN {Num(1), Num(2)} ELSE {Str(S_c1), Str(S_c2)}

\* what a consumer may name as the channel of a send: the ids the platform
\* uses, and for Telegram also a chat id typed as text (the command line's
\* `send telegram 1 hello` passes its argument as the string "1")
SendChannelIdsOf(p) ==
  IF p = "telegram" THEN ChannelIdsOf(p) \cup {Str(<<"1">>)} ELSE ChannelIdsOf(p)

InboundContents == {S_hello, S_weather, S_cmd, S_midcmd}

\* every key is given a responder of its own
AgentFor(key) == <<"agent", key>>
AgentKeys == {Str(S_global), Num(1), Str(S_c1)}

\* what processMessage may resolve with; it may also reject
AIResponses == {Null, Str(<<>>), Str(S_reply)}

\* the adapter object handed to registerIntegration
AdapterRef(a) == <<"integration", a>>

\* ------------------------------------------------- what the adapters emit
TelegramPayload(content, chatId, nativeId) ==
  [ text       |-> Str(content),
    from       |-> Obj([id |-> Num(7), username |-> Str(S_alice)]),
    chat       |-> Obj([id |-> chatId, title |-> Str(S_team)]),
    message_id |-> Num(nativeId),
    isEdit     |-> Bool(FALSE),
    platform   |-> Str(<<"telegram">>) ]

SlackPayload(content, channel, nativeId) ==
  [ text         |-> Str(content),
    user         |-> Str(S_alice),
    channel      |-> channel,
    ts           |-> Num(nativeId),
    thread_ts    |-> Undefined,
    username     |-> Str(S_Unknown),
    channel_name |-> Str(S_Unknown),
    platform     |-> Str(<<"slack">>) ]

DiscordPayload(content, channel, nativeId) ==
  [ id        |-> Num(nativeId),
    content   |-> Str(content),
    author    |-> Obj([id |-> Str(S_alice), username |-> Str(S_alice),
                       discriminator |-> Str(<<"0">>)]),
    channel   |-> Obj([id |-> channel, name |-> Str(S_team)]),
    guild     |-> Null,
    isEdit    |-> Bool(FALSE),
    platform  |-> Str(<<"discord">>) ]

OtherPayload(content, channel, nativeId) ==
  [ content     |-> Str(content),
    author      |-> Obj([id |-> Str(S_alice), username |-> Str(S_alice)]),
    channelId   |-> channel,
    channelName |-> Str(S_team),
    id          |-> Num(nativeId) ]

PayloadOf(kind, content, channel, nativeId) ==
  CASE kind = "telegram" -> TelegramPayload(content, channel, nativeId)
    [] kind = "slack"    -> SlackPayload(content, channel, nativeId)
    [] kind = "discord"  -> DiscordPayload(content, channel, nativeId)
    [] OTHER             -> OtherPayload(content, channel, nativeId)

\* ------------------------------------------------------- normalizeMessage
\* mutant: every Telegram message is typed as Slack's are
getMessageTypeMessage(message) == "message"

getMessageType(message) ==
  IF Truthy(Get(message, "photo")) THEN "photo"
  ELSE IF Truthy(Get(message, "video")) THEN "video"
  ELSE IF Truthy(Get(message, "audio")) THEN "audio"
  ELSE IF Truthy(Get(message, "voice")) THEN "voice"
  ELSE IF Truthy(Get(message, "document")) THEN "document"
  ELSE IF Truthy(Get(message, "sticker")) THEN "sticker"
  ELSE "text"

\* mutant: the id is taken from the clock instead of uuidv4()
baseMessageTimestampId(platform, uuids, ts) ==
  [ id          |-> Uuid(ts),
    platform    |-> platform,
    timestamp   |-> ts,
    processed   |-> FALSE,
    reactions   |-> <<>>,
    attachments |-> <<>> ]

\* the nth value uuidv4() returns: a fresh string each call
baseMessage(platform, uuids, ts) ==
  [ id          |-> Uuid(uuids + 1),
    platform    |-> platform,
    timestamp   |-> ts,
    processed   |-> FALSE,
    reactions   |-> <<>>,
    attachments |-> <<>> ]

Threw(uuids) == [threw |-> TRUE, uuids |-> uuids]
Returned(message, uuids) == [threw |-> FALSE, message |-> message, uuids |-> uuids]

\* normalizeMessage(platform, rawMessage), called when uuidv4() has been
\* called `uuids` times and moment() reads `ts`.  Result: the message and the
\* new number of uuidv4() calls, or threw (a TypeError: a property of
\* undefined was read).
normalizeMessage(platform, rawMessage, uuids, ts) ==
  LET base == baseMessage(platform, uuids, ts) IN
  CASE platform = "telegram" ->
         IF IsNullish(Get(rawMessage, "from")) \/ IsNullish(Get(rawMessage, "chat"))
         THEN Threw(uuids + 1)
         ELSE Returned(base @@
           [ content     |-> Or(Get(rawMessage, "text"),
                                Or(Get(rawMessage, "caption"), Str(S_media))),
             author      |-> [ id        |-> Prop(rawMessage.from, "id"),
                               username  |-> Prop(rawMessage.from, "username"),
                               firstName |-> Prop(rawMessage.from, "first_name"),
                               lastName  |-> Prop(rawMessage.from, "last_name") ],
             channelId   |-> Prop(rawMessage.chat, "id"),
             channelName |-> Or(Prop(rawMessage.chat, "title"),
                                Prop(rawMessage.chat, "first_name")),
             messageId   |-> Get(rawMessage, "message_id"),
             type        |-> Str(<<getMessageType(rawMessage)>>) ], uuids + 1)
    [] platform = "slack" ->
         Returned(base @@
           [ content     |-> Or(Get(rawMessage, "text"), Str(S_media)),
             author      |-> [ id       |-> Get(rawMessage, "user"),
                               username |-> Get(rawMessage, "username") ],
             channelId   |-> Get(rawMessage, "channel"),
             channelName |-> Get(rawMessage, "channel_name"),
             messageId   |-> Get(rawMessage, "ts"),
             type        |-> Or(Get(rawMessage, "subtype"), Str(<<"message">>)) ],
           uuids + 1)
    [] platform = "discord" ->
         IF IsNullish(Get(rawMessage, "author")) \/ IsNullish(Get(rawMessage, "channel"))
         THEN Threw(uuids + 1)
         ELSE Returned(base @@
           [ content     |-> Or(Get(rawMessage, "content"), Str(S_media)),
             author      |-> [ id            |-> Prop(rawMessage.author, "id"),
                               username      |-> Prop(rawMessage.author, "username"),
                               discriminator |-> Prop(rawMessage.author, "discriminator") ],
             channelId   |-> Prop(rawMessage.channel, "id"),
             channelName |-> Prop(rawMessage.channel, "name"),
             messageId   |-> Get(rawMessage, "id"),
             type        |-> Get(rawMessage, "type") ], uuids + 1)
    [] OTHER ->
         LET hasId == Truthy(Get(rawMessage, "id"))
             auth  == Or(Get(rawMessage, "author"),
                         Obj([id |-> Str(S_unknown), username |-> Str(S_Unknown)]))
         IN Returned(base @@
           [ content     |-> Or(Get(rawMessage, "content"),
                                Or(Get(rawMessage, "text"), Str(S_UnknownContent))),
             author      |-> IF auth[1] = "object" THEN auth[2] ELSE [value |-> auth],
             channelId   |-> Or(Get(rawMessage, "channelId"), Str(S_unknown)),
             channelName |-> Or(Get(rawMessage, "channelName"), Str(S_Unknown)),
             messageId   |-> IF hasId THEN Get(rawMessage, "id") ELSE Uuid(uuids + 2),
             type        |-> Str(<<"message">>) ],
           IF hasId THEN uuids + 1 ELSE uuids + 2)

\* mutant: '/ai' is looked for anywhere in the content
shouldProcessWithAIAnywhere(agents, message) ==
  \/ Includes(message.content[2], S_ai_at)
  \/ Includes(message.content[2], S_ai_cmd)
  \/ MapHas(agents, message.channelId)

\* ------------------------------------------------------ the AI trigger
shouldProcessWithAI(agents, message) ==
  \/ Includes(message.content[2], S_ai_at)
  \/ StartsWith(message.content[2], S_ai_cmd)
  \/ MapHas(agents, message.channelId)

\* ------------------------------------------------------------------ state
VARIABLES
  messages,      \* this.messages: Map id -> message, in insertion order
  integrations,  \* this.integrations: Map platform -> adapter
  aiAgents,      \* this.aiAgents: Map key -> responder
  listeners,     \* per adapter: the platforms of the bus's listeners on it
  uuids,         \* how many times uuidv4() has been called
  now,           \* what moment() reads
  emitted,       \* the events the bus has emitted, in order
  calls,         \* every sendMessage call of the bus, in call order
  adapterSends,  \* every adapter.sendMessage invocation, in order
  aiTasks,       \* every processWithAI call, in call order
  crossTasks,    \* every sendCrossChannelMessage call, in call order
  inbound,       \* how many messages the adapters have emitted
  delivered,     \* the payloads the adapters have emitted, in order
  handled,       \* how many handleIncomingMessage calls have returned
  evals,         \* every evaluation of the AI trigger predicate, in order
  ops            \* how many operations the environment has started

\* one adapter (a BaseIntegration) and its reconnect machinery
VARIABLES
  adapterPlatform,    \* this.platform
  connected,          \* this.connected
  reconnectAttempts,  \* this.reconnectAttempts
  timers,             \* the pending setTimeout callbacks of handleReconnect
  connects,           \* every connect() call, in call order
  scheduled,          \* every setTimeout of handleReconnect, in order
  adapterEvents,      \* the 'status' and 'error' events the adapter emitted
  chains,             \* the calls of handleReconnect from outside, in order
  drops,              \* the times the platform SDK lost its connection, in order
  clock,              \* the time, in milliseconds
  adapterOps,         \* how many operations the environment has started
  config,             \* this.config
  client,             \* whether the SDK handle (this.bot, this.webClient, this.client) is set
  sendAttempts,       \* every sendMessage call on the adapter, in call order
  checks              \* every healthCheck call on the adapter, in call order

\* the AIAgent
VARIABLES
  conversationHistory,  \* this.conversationHistory: Map key -> the roles of its entries
  agentChannels,        \* this.channels: Map key -> channel configuration
  crossChannelMode,     \* this.crossChannelMode
  generating,           \* the processMessage calls awaiting generateResponse
  agentCalls,           \* how many processMessage calls have been made
  aiConfigs             \* the ai_config commands the server has handled, in order

agentVars == <<conversationHistory, agentChannels, crossChannelMode, generating, agentCalls,
               aiConfigs>>

\* the calls of the server's disconnectPlatform and of the Slack adapter's
\* handleMessage, which wait for the platform SDK before they go on
VARIABLES
  disconnecting,  \* every disconnectPlatform call that found an adapter, in call order
  acking          \* every handleMessage call of the Slack adapter, in call order

pendingVars == <<disconnecting, acking>>

\* no call has been made yet
NonePending ==
  /\ disconnecting = <<>>
  /\ acking = <<>>

\* AIAgent's constructor, with config.crossChannelMode
AIAgentConstructor(mode) ==
  /\ conversationHistory = <<>>
  /\ agentChannels = <<>>
  /\ crossChannelMode = mode
  /\ generating = {}
  /\ agentCalls = 0
  /\ aiConfigs = <<>>

adapterVars == <<adapterPlatform, connected, reconnectAttempts, timers, connects, scheduled,
                 adapterEvents, chains, drops, clock, adapterOps, config, client,
                 sendAttempts, checks>>

\* the configurations an adapter is constructed with: the platform's tokens
\* are there or not
S_token == <<"t", "o", "k">>
ConfigWith(token) == [botToken |-> token, appToken |-> token]
TokenConfig == ConfigWith(Str(S_token))
Configs == {ConfigWith(Undefined), TokenConfig}

\* the constructor of a subclass of BaseIntegration, for the given platform
constructor(p, cfg) ==
  /\ adapterPlatform = p
  /\ config = cfg
  /\ client = FALSE
  /\ sendAttempts = <<>>
  /\ checks = <<>>
  /\ connected = FALSE
  /\ reconnectAttempts = 0
  /\ timers = {}
  /\ connects = <<>>
  /\ scheduled = <<>>
  /\ adapterEvents = <<>>
  /\ chains = <<>>
  /\ drops = <<>>
  /\ clock = 0
  /\ adapterOps = 0

vars == <<messages, integrations, aiAgents, listeners, uuids, now, emitted, calls,
          adapterSends, aiTasks, crossTasks, inbound, delivered, handled, evals, ops,
          adapterPlatform, connected, reconnectAttempts, timers, connects, scheduled,
          adapterEvents, chains, drops, clock, adapterOps, config, client,
          sendAttempts, checks,
          conversationHistory, agentChannels, crossChannelMode, generating, agentCalls,
          aiConfigs, disconnecting, acking>>

busVars == <<messages, integrations, aiAgents, listeners, uuids, now, emitted, calls,
             adapterSends, aiTasks, crossTasks, inbound, delivered, handled, evals, ops>>

\* the state as one record, so that a handler that calls other handlers is
\* one function of the state
State ==
  [ messages |-> messages, integrations |-> integrations, aiAgents |-> aiAgents,
    listeners |-> listeners, uuids |-> uuids, now |-> now, emitted |-> emitted,
    calls |-> calls, adapterSends |-> adapterSends, aiTasks |-> aiTasks,
    crossTasks |-> crossTasks, inbound |-> inbound, delivered |-> delivered,
    handled |-> handled, evals |-> evals, ops |-> ops ]

BusBecomes(S) ==
  /\ messages' = S.messages
  /\ integrations' = S.integrations
  /\ aiAgents' = S.aiAgents
  /\ listeners' = S.listeners
  /\ uuids' = S.uuids
  /\ now' = S.now
  /\ emitted' = S.emitted
  /\ calls' = S.calls
  /\ adapterSends' = S.adapterSends
  /\ aiTasks' = S.aiTasks
  /\ crossTasks' = S.crossTasks
  /\ inbound' = S.inbound
  /\ delivered' = S.delivered
  /\ handled' = S.handled
  /\ evals' = S.evals
  /\ ops' = S.ops

Becomes(S) ==
  /\ BusBecomes(S)
  /\ UNCHANGED adapterVars
  /\ UNCHANGED agentVars
  /\ UNCHANGED pendingVars

Init ==
  /\ messages = <<>>
  /\ integrations = <<>>
  /\ aiAgents = <<>>
  /\ listeners = [a \in Adapters |-> <<>>]
  /\ uuids = 0
  /\ now = 0
  /\ emitted = <<>>
  /\ calls = <<>>
  /\ adapterSends = <<>>
  /\ aiTasks = <<>>
  /\ crossTasks = <<>>
  /\ inbound = 0
  /\ delivered = <<>>
  /\ handled = 0
  /\ evals = <<>>
  /\ ops = 0
  /\ constructor("telegram", TokenConfig)
  /\ AIAgentConstructor(FALSE)
  /\ NonePending

\* ------------------------------------------------------------ sendMessage
NoIntegrationError(platform) ==
  [name |-> "Error", message |-> <<"No integration found for platform: ", platform>>]
TypeError == [name |-> "TypeError", message |-> <<"Cannot read properties of undefined">>]
SendError == [name |-> "Error", message |-> <<"platform rejected the message">>]

\* mutant: no check of the lookup, so the adapter's method is read from
\* undefined
sendMessageNoGuard(S, platform, channelId, content, parent) ==
  LET integration == MapGet(S.integrations, platform)
      call == [ platform |-> platform, channelId |-> channelId, content |-> content,
                parent |-> parent ]
  IN IF ~Truthy(integration)
     THEN [S EXCEPT !.calls = Append(@, call @@
             [ state |-> "rejected", adapter |-> Undefined, outcome |-> "none",
               settled |-> Undefined, value |-> TypeError, stored |-> Undefined ])]
     ELSE [S EXCEPT
             !.adapterSends = Append(@, [ adapter |-> integration[2],
                                          channelId |-> channelId, content |-> content,
                                          call |-> Len(S.calls) + 1 ]),
             !.calls = Append(@, call @@
               [ state |-> "awaitAdapter", adapter |-> integration, outcome |-> "none",
                 settled |-> Undefined, value |-> Undefined, stored |-> Undefined ])]

\* sendMessage up to its await: the lookup, the throw for an unknown
\* platform, the call of the adapter.  `parent` names the caller that awaits.
\* A call record keeps, beside the call's arguments: state (awaitAdapter,
\* resolved, rejected), value (what the call returned or threw), outcome and
\* settled (whether and with what the adapter's promise settled) and stored
\* (the id of the message the call put in the store).
sendMessage(S, platform, channelId, content, parent) ==
  LET integration == MapGet(S.integrations, platform)
      call == [ platform |-> platform, channelId |-> channelId, content |-> content,
                parent |-> parent ]
  IN IF ~Truthy(integration)
     THEN [S EXCEPT !.calls = Append(@, call @@
             [ state |-> "rejected", adapter |-> Undefined, outcome |-> "none",
               settled |-> Undefined, value |-> NoIntegrationError(platform),
               stored |-> Undefined ])]
     ELSE [S EXCEPT
             !.adapterSends = Append(@, [ adapter |-> integration[2],
                                          channelId |-> channelId, content |-> content,
                                          call |-> Len(S.calls) + 1 ]),
             !.calls = Append(@, call @@
               [ state |-> "awaitAdapter", adapter |-> integration, outcome |-> "none",
                 settled |-> Undefined, value |-> Undefined, stored |-> Undefined ])]

\* what the adapter's sendMessage resolved with
AdapterResult(platform, channelId, nativeId) ==
  [ messageId |-> nativeId, channelId |-> channelId, platform |-> platform ]

\* mutant: a failed send is tried again
sendMessageRejectedRetries(S, c, error) ==
  [S EXCEPT !.adapterSends = Append(@, [ adapter |-> S.calls[c].adapter[2],
                                         channelId |-> S.calls[c].channelId,
                                         content |-> S.calls[c].content, call |-> c ])]

\* sendMessage after its await, for call c: the adapter rejected with `error`
sendMessageRejected(S, c, error) ==
  [S EXCEPT !.calls[c].state = "rejected", !.calls[c].value = error]

\* sendMessage after its await, for call c: the adapter resolved with `result`
sendMessageResolved(S, c, result) ==
  LET call    == S.calls[c]
      hasId   == Truthy(result.messageId)
      used    == IF hasId THEN S.uuids ELSE S.uuids + 1
      norm    == normalizeMessage(call.platform,
                   [ text       |-> call.content,
                     from       |-> Obj([id |-> Str(S_bot), username |-> Str(S_UnifiMessenger)]),
                     chat       |-> Obj([id |-> call.channelId]),
                     message_id |-> IF hasId THEN result.messageId ELSE Uuid(S.uuids + 1) ],
                   used, S.now)
  IN IF norm.threw
     THEN [S EXCEPT !.uuids = norm.uuids,
                    !.calls[c].state = "rejected", !.calls[c].value = TypeError]
     ELSE [S EXCEPT !.uuids = norm.uuids,
                    !.messages = MapSet(@, norm.message.id, norm.message),
                    !.emitted = Append(@, [type |-> "message_sent", message |-> norm.message.id,
                                           seen |-> TRUE]),
                    !.calls[c].state = "resolved", !.calls[c].value = result,
                    !.calls[c].stored = norm.message.id]

\* ------------------------------------------------- sendCrossChannelMessage
\* mutant: a channel is listed once for each of its messages
getActiveChannelsFromEveryMessage(msgs, platform, channels) ==
  LET F[i \in 0..Len(msgs)] ==
        IF i = 0 THEN channels
        ELSE IF msgs[i].value.platform = platform
             THEN Append(F[i - 1], msgs[i].value.channelId)
             ELSE F[i - 1]
  IN F[Len(msgs)]

getActiveChannelsFrom(msgs, platform, channels) ==
  LET F[i \in 0..Len(msgs)] ==
        IF i = 0 THEN channels
        ELSE LET message == msgs[i].value
                 prev == F[i - 1]
             IN IF message.platform = platform
                   /\ ~(\E j \in 1..Len(prev) : prev[j] = message.channelId)
                THEN Append(prev, message.channelId)
                ELSE prev
  IN F[Len(msgs)]

getActiveChannels(msgs, platform) == getActiveChannelsFrom(msgs, platform, <<>>)

\* the loops of sendCrossChannelMessage for task t, run from where the task
\* stands up to the next await (a sendMessage in flight) or to the return.
\* A task keeps: pos (the Map iterator's place in this.integrations), entered
\* and channels (the target list of the platform at pos, once resolved), k
\* (the place in channels), results, and targets (every target list resolved
\* so far, with its platform and the size of the store when it was resolved).
RECURSIVE crossLoop(_, _)
crossLoop(S, t) ==
  LET task == S.crossTasks[t] IN
  IF task.pos > Len(S.integrations)
  THEN [S EXCEPT !.crossTasks[t].state = "returned"]
  ELSE
    LET platform == S.integrations[task.pos].key
        channels == IF task.entered THEN task.channels
                    ELSE IF Truthy(task.optChannels) THEN task.optChannels[2]
                    ELSE getActiveChannels(S.messages, platform)
        S1 == [S EXCEPT !.crossTasks[t].entered = TRUE, !.crossTasks[t].channels = channels,
                        !.crossTasks[t].targets =
                            IF task.entered THEN @
                            ELSE Append(@, [platform |-> platform, channels |-> channels,
                                            stored |-> Len(S.messages)])]
    IN IF task.k > Len(channels)
       THEN crossLoop([S1 EXCEPT !.crossTasks[t].pos = @ + 1, !.crossTasks[t].entered = FALSE,
                                 !.crossTasks[t].channels = <<>>, !.crossTasks[t].k = 1], t)
       ELSE
         LET S2 == sendMessage(S1, platform, channels[task.k], task.content,
                               [kind |-> "cross", id |-> t])
             c  == Len(S2.calls)
         IN IF S2.calls[c].state = "rejected"
            THEN crossLoop([S2 EXCEPT
                   !.crossTasks[t].results =
                       Append(@, [platform |-> platform, error |-> S2.calls[c].value.message]),
                   !.crossTasks[t].pos = @ + 1, !.crossTasks[t].entered = FALSE,
                   !.crossTasks[t].channels = <<>>, !.crossTasks[t].k = 1], t)
            ELSE [S2 EXCEPT !.crossTasks[t].state = "awaitSend"]

\* mutant: the try is inside the loop over the channels
crossResumePerChannel(S, t, c) ==
  LET call == S.calls[c]
  IN IF call.state = "resolved"
     THEN crossLoop([S EXCEPT
            !.crossTasks[t].results =
                Append(@, [platform |-> call.platform, channelId |-> call.channelId,
                           result |-> call.value]),
            !.crossTasks[t].k = @ + 1], t)
     ELSE crossLoop([S EXCEPT
            !.crossTasks[t].results =
                Append(@, [platform |-> call.platform, error |-> call.value.message]),
            !.crossTasks[t].k = @ + 1], t)

\* sendCrossChannelMessage after `await this.sendMessage(...)` settled as call c
crossResume(S, t, c) ==
  LET task == S.crossTasks[t]
      call == S.calls[c]
  IN IF call.state = "resolved"
     THEN crossLoop([S EXCEPT
            !.crossTasks[t].results =
                Append(@, [platform |-> call.platform, channelId |-> call.channelId,
                           result |-> call.value]),
            !.crossTasks[t].k = @ + 1], t)
     ELSE crossLoop([S EXCEPT
            !.crossTasks[t].results =
                Append(@, [platform |-> call.platform, error |-> call.value.message]),
            !.crossTasks[t].pos = @ + 1, !.crossTasks[t].entered = FALSE,
            !.crossTasks[t].channels = <<>>, !.crossTasks[t].k = 1], t)

sendCrossChannelMessage(S, content, options) ==
  crossLoop([S EXCEPT !.crossTasks = Append(@,
      [ content |-> content, optChannels |-> options, pos |-> 1, entered |-> FALSE,
        channels |-> <<>>, k |-> 1, results |-> <<>>, targets |-> <<>>,
        state |-> "running" ])],
    Len(S.crossTasks) + 1)

\* ---------------------------------------------------------- processWithAI
\* mutant: the 'global' agent is looked up first
processWithAIGlobalFirst(S, message) ==
  LET aiAgent == Or(MapGet(S.aiAgents, Str(S_global)), MapGet(S.aiAgents, message.channelId))
      task == [ message |-> message.id, platform |-> message.platform,
                channelId |-> message.channelId, content |-> message.content,
                agent |-> aiAgent, response |-> Undefined, call |-> 0 ]
  IN IF ~Truthy(aiAgent)
     THEN [S EXCEPT !.aiTasks = Append(@, task @@ [state |-> "noAgent"])]
     ELSE [S EXCEPT !.aiTasks = Append(@, task @@ [state |-> "awaitAgent"])]

\* processWithAI up to `await aiAgent.processMessage(message)`
processWithAI(S, message) ==
  LET aiAgent == Or(MapGet(S.aiAgents, message.channelId), MapGet(S.aiAgents, Str(S_global)))
      task == [ message |-> message.id, platform |-> message.platform,
                channelId |-> message.channelId, content |-> message.content,
                agent |-> aiAgent, response |-> Undefined, call |-> 0 ]
  IN IF ~Truthy(aiAgent)
     THEN [S EXCEPT !.aiTasks = Append(@, task @@ [state |-> "noAgent"])]
     ELSE [S EXCEPT !.aiTasks = Append(@, task @@ [state |-> "awaitAgent"])]

\* mutant: every reply that is not null is sent, the empty one too
processWithAIResolvedSendsEmpty(S, t, response) ==
  LET task == S.aiTasks[t]
      S1 == [S EXCEPT !.aiTasks[t].response = response]
  IN IF response = Null
     THEN [S1 EXCEPT !.aiTasks[t].state = "done"]
     ELSE LET S2 == sendMessage(S1, task.platform, task.channelId, response,
                                [kind |-> "ai", id |-> t])
              c  == Len(S2.calls)
          IN IF S2.calls[c].state = "rejected"
             THEN [S2 EXCEPT !.aiTasks[t].state = "caught", !.aiTasks[t].call = c]
             ELSE [S2 EXCEPT !.aiTasks[t].state = "awaitSend", !.aiTasks[t].call = c]

\* processWithAI after processMessage resolved with `response`
processWithAIResolved(S, t, response) ==
  LET task == S.aiTasks[t]
      S1 == [S EXCEPT !.aiTasks[t].response = response]
  IN IF ~Truthy(response)
     THEN [S1 EXCEPT !.aiTasks[t].state = "done"]
     ELSE LET S2 == sendMessage(S1, task.platform, task.channelId, response,
                                [kind |-> "ai", id |-> t])
              c  == Len(S2.calls)
          IN IF S2.calls[c].state = "rejected"
             THEN [S2 EXCEPT !.aiTasks[t].state = "caught", !.aiTasks[t].call = c]
             ELSE [S2 EXCEPT !.aiTasks[t].state = "awaitSend", !.aiTasks[t].call = c]

\* mutant: the catch answers the sender with an apology
processWithAIRejectedReplies(S, t) ==
  LET S1 == sendMessage([S EXCEPT !.aiTasks[t].response = <<"rejected">>],
                        S.aiTasks[t].platform, S.aiTasks[t].channelId, Str(S_reply),
                        [kind |-> "ai", id |-> t])
  IN [S1 EXCEPT !.aiTasks[t].state = "caught", !.aiTasks[t].call = Len(S1.calls)]

\* processWithAI after processMessage rejected: the catch logs the error
processWithAIRejected(S, t) ==
  [S EXCEPT !.aiTasks[t].state = "caught", !.aiTasks[t].response = <<"rejected">>]

\* processWithAI after `await this.sendMessage(...)` settled as call c
aiResume(S, t, c) ==
  IF S.calls[c].state = "resolved"
  THEN [S EXCEPT !.aiTasks[t].state = "done"]
  ELSE [S EXCEPT !.aiTasks[t].state = "caught"]

\* the caller awaiting call c goes on once it has settled
resumeParent(S, c) ==
  LET parent == S.calls[c].parent
  IN CASE parent.kind = "cross" -> crossResume(S, parent.id, c)
       [] parent.kind = "ai"    -> aiResume(S, parent.id, c)
       [] OTHER                 -> S

\* this.emit(type, message): the event is recorded with what a subscriber's
\* handler would see, namely whether the message is in the store
emitEvent(S, type, id) ==
  [S EXCEPT !.emitted = Append(@, [type |-> type, message |-> id,
                                   seen |-> MapHas(S.messages, id)])]

\* the evaluation of shouldProcessWithAI(message) in handleIncomingMessage,
\* recorded with the number of the adapter emission being handled, and with
\* the number of events emitted and of processWithAI calls started when it
\* is made
evalTrigger(S, message) ==
  [S EXCEPT !.evals = Append(@, [ message |-> message.id,
                                  emission |-> S.inbound,
                                  result  |-> shouldProcessWithAI(S.aiAgents, message),
                                  events  |-> Len(S.emitted),
                                  tasks   |-> Len(S.aiTasks) ])]

\* mutant: the store is keyed by the platform's message id
handleIncomingMessageByNativeId(S, platform, rawMessage) ==
  LET norm == normalizeMessage(platform, rawMessage, S.uuids, S.now)
  IN IF norm.threw THEN [S EXCEPT !.uuids = norm.uuids]
     ELSE LET message == norm.message
              S1 == [S EXCEPT !.uuids = norm.uuids,
                              !.messages = MapSet(@, message.messageId, message),
                              !.emitted = Append(@, [type |-> "message", message |-> message.id,
                                                     seen |-> TRUE]),
                              !.handled = @ + 1]
              S2 == evalTrigger(S1, message)
          IN IF shouldProcessWithAI(S1.aiAgents, message)
             THEN processWithAI(S2, message)
             ELSE S2

\* mutant: the inbound path waits for the AI calls in flight, so a message
\* that arrives meanwhile is not handled
handleIncomingMessageAfterAI(S, platform, rawMessage) ==
  IF \E t \in 1..Len(S.aiTasks) : S.aiTasks[t].state = "awaitAgent"
  THEN S
  ELSE LET norm == normalizeMessage(platform, rawMessage, S.uuids, S.now)
           message == norm.message
           S1 == emitEvent([S EXCEPT !.uuids = norm.uuids,
                                     !.messages = MapSet(@, message.id, message)],
                           "message", message.id)
           S2 == evalTrigger([S1 EXCEPT !.handled = @ + 1], message)
       IN IF norm.threw THEN [S EXCEPT !.uuids = norm.uuids]
          ELSE IF shouldProcessWithAI(S2.aiAgents, message)
               THEN processWithAI(S2, message)
               ELSE S2

\* mutant: the messages wait in a stack, so the latest comes first
handleIncomingMessageOnTop(S, platform, rawMessage) ==
  LET norm == normalizeMessage(platform, rawMessage, S.uuids, S.now)
  IN IF norm.threw THEN [S EXCEPT !.uuids = norm.uuids]
     ELSE LET message == norm.message
              S1 == emitEvent([S EXCEPT !.uuids = norm.uuids,
                                        !.messages = <<[key |-> message.id, value |-> message]>> \o @],
                              "message", message.id)
              S2 == evalTrigger([S1 EXCEPT !.handled = @ + 1], message)
          IN IF shouldProcessWithAI(S2.aiAgents, message)
             THEN processWithAI(S2, message)
             ELSE S2

\* mutant: the event is emitted before the message is put in the store
handleIncomingMessageEmitsFirst(S, platform, rawMessage) ==
  LET norm == normalizeMessage(platform, rawMessage, S.uuids, S.now)
  IN IF norm.threw THEN [S EXCEPT !.uuids = norm.uuids]
     ELSE LET message == norm.message
              S1 == emitEvent([S EXCEPT !.uuids = norm.uuids], "message", message.id)
              S2 == evalTrigger([S1 EXCEPT !.messages = MapSet(@, message.id, message),
                                           !.handled = @ + 1], message)
          IN IF shouldProcessWithAI(S2.aiAgents, message)
             THEN processWithAI(S2, message)
             ELSE S2

\* ---------------------------------------------------- handleIncomingMessage
\* handleIncomingMessage is synchronous: normalize, put in the store, emit
\* 'message' to the subscribers, evaluate the trigger, start processWithAI
\* (which runs to its first await)
handleIncomingMessage(S, platform, rawMessage) ==
  LET norm == normalizeMessage(platform, rawMessage, S.uuids, S.now)
  IN IF norm.threw THEN [S EXCEPT !.uuids = norm.uuids]
     ELSE LET message == norm.message
              S1 == emitEvent([S EXCEPT !.uuids = norm.uuids,
                                        !.messages = MapSet(@, message.id, message)],
                              "message", message.id)
              S2 == evalTrigger([S1 EXCEPT !.handled = @ + 1], message)
          IN IF shouldProcessWithAI(S2.aiAgents, message)
             THEN processWithAI(S2, message)
             ELSE S2

\* adapter.emit('message', raw): the listeners run in registration order, and
\* a listener that throws ends the emit
RECURSIVE emitMessage(_, _, _)
emitMessage(S, platforms, rawMessage) ==
  IF platforms = <<>> THEN S
  ELSE IF normalizeMessage(Head(platforms), rawMessage, S.uuids, S.now).threw
       THEN handleIncomingMessage(S, Head(platforms), rawMessage)
       ELSE emitMessage(handleIncomingMessage(S, Head(platforms), rawMessage),
                        Tail(platforms), rawMessage)

\* mutant: only the adapter that is in the registry for its platform is
\* listened to, and once
deliverFromRegistered(S, a, raw) ==
  emitMessage([S EXCEPT !.inbound = @ + 1,
                        !.delivered = Append(@, [adapter |-> a, raw |-> raw])],
              IF MapGet(S.integrations, KindOf(a)) = AdapterRef(a) THEN <<KindOf(a)>> ELSE <<>>,
              raw)

\* the platform SDK hands adapter a a message, and the adapter emits `raw`
deliver(S, a, raw) ==
  emitMessage([S EXCEPT !.inbound = @ + 1,
                        !.delivered = Append(@, [adapter |-> a, raw |-> raw])],
              S.listeners[a], raw)

\* ------------------------------------------------ registration operations
\* mutant: the adapter registered first for a platform stays in the registry
registerIntegrationKeepsFirst(S, platform, a) ==
  [S EXCEPT !.integrations = IF MapHas(@, platform) THEN @ ELSE MapSet(@, platform, AdapterRef(a)),
            !.listeners[a] = Append(@, platform)]

\* registerIntegration(platform, integration): the Map entry of the platform
\* is set, and the bus's 'message' and 'status' listeners are added to the
\* adapter
registerIntegration(S, platform, a) ==
  [S EXCEPT !.integrations = MapSet(@, platform, AdapterRef(a)),
            !.listeners[a] = Append(@, platform)]

registerAIAgent(S, id, agent) ==
  [S EXCEPT !.aiAgents = MapSet(@, id, agent)]

\* the events of an adapter that registerIntegration adds a listener for
SubscribedTypes == {"message", "status"}

\* the 'status' listener that registerIntegration added for `platform`
statusListener(S, platform, status) ==
  [S EXCEPT !.emitted = Append(@, [type |-> "integration_status", platform |-> platform,
                                   status |-> status])]

\* the adapter's emit('status', status): the bus's listeners on the adapter
\* run in the order they were added
RECURSIVE emitStatusToBus(_, _, _)
emitStatusToBus(S, platforms, status) ==
  IF platforms = <<>> THEN S
  ELSE emitStatusToBus(statusListener(S, Head(platforms), status), Tail(platforms), status)

\* the entry of the platform is deleted from this.integrations
\* (disconnectPlatform); the listeners on the adapter stay
integrationsDelete(S, platform) ==
  [S EXCEPT !.integrations = SelectSeq(@, LAMBDA e : e.key # platform)]

\* ------------------------------------------------------------ getMessages
\* Array.prototype.slice(start) with one argument
Slice(seq, start) ==
  LET from == IF start < 0 THEN (IF Len(seq) + start < 0 THEN 0 ELSE Len(seq) + start)
              ELSE (IF start > Len(seq) THEN Len(seq) ELSE start)
  IN SubSeq(seq, from + 1, Len(seq))

\* the comparator of getMessages: isBefore ? -1 : 1
compareMessages(a, b) == IF a.timestamp < b.timestamp THEN 0 - 1 ELSE 1

\* Array.prototype.sort as Node's engine runs it on short arrays: a binary
\* insertion sort, which puts each element before the first element of the
\* sorted prefix that the comparator orders after it
InsertMessage(sorted, x) ==
  LET before == {i \in 1..Len(sorted) : compareMessages(x, sorted[i]) < 0}
      at == IF before = {} THEN Len(sorted) + 1
            ELSE CHOOSE i \in before : \A j \in before : i <= j
  IN SubSeq(sorted, 1, at - 1) \o <<x>> \o SubSeq(sorted, at, Len(sorted))

SortMessages(seq) ==
  LET F[i \in 0..Len(seq)] == IF i = 0 THEN <<>> ELSE InsertMessage(F[i - 1], seq[i])
  IN F[Len(seq)]

\* mutant: the platform filter is not applied
getMessagesAnyPlatform(msgs, filters) ==
  LET all == MapValues(msgs)
      bySince ==
        IF "since" \in DOMAIN filters
        THEN SelectSeq(all, LAMBDA m : m.timestamp > filters.since) ELSE all
      limited ==
        IF Truthy(Get(filters, "limit"))
        THEN Slice(bySince, 0 - filters.limit[2]) ELSE bySince
  IN SortMessages(limited)

\* mutant: a message as old as `since` is kept
getMessagesSinceInclusive(msgs, filters) ==
  LET all == MapValues(msgs)
      byPlatform ==
        IF "platform" \in DOMAIN filters /\ filters.platform # ""
        THEN SelectSeq(all, LAMBDA m : m.platform = filters.platform) ELSE all
      bySince ==
        IF "since" \in DOMAIN filters
        THEN SelectSeq(byPlatform, LAMBDA m : m.timestamp >= filters.since) ELSE byPlatform
      limited ==
        IF Truthy(Get(filters, "limit"))
        THEN Slice(bySince, 0 - filters.limit[2]) ELSE bySince
  IN SortMessages(limited)

\* getMessages(filters): filters is a record holding the filters given;
\* platform is a platform name, channelId and author are JavaScript values,
\* since is a timestamp (an ISO string, never falsy) and limit a number
getMessages(msgs, filters) ==
  LET all == MapValues(msgs)
      byPlatform ==
        IF "platform" \in DOMAIN filters /\ filters.platform # ""
        THEN SelectSeq(all, LAMBDA m : m.platform = filters.platform) ELSE all
      byChannel ==
        IF Truthy(Get(filters, "channelId"))
        THEN SelectSeq(byPlatform, LAMBDA m : m.channelId = filters.channelId)
        ELSE byPlatform
      byAuthor ==
        IF Truthy(Get(filters, "author"))
        THEN SelectSeq(byChannel, LAMBDA m : \/ Get(m.author, "username") = filters.author
                                             \/ Get(m.author, "id") = filters.author)
        ELSE byChannel
      bySince ==
        IF "since" \in DOMAIN filters
        THEN SelectSeq(byAuthor, LAMBDA m : m.timestamp > filters.since) ELSE byAuthor
      limited ==
        IF Truthy(Get(filters, "limit"))
        THEN Slice(bySince, 0 - filters.limit[2]) ELSE bySince
  IN SortMessages(limited)

\* ------------------------------------------------------------ getChannels
\* String(n) for a natural number
Digits == <<"0", "1", "2", "3", "4", "5", "6", "7", "8", "9">>
RECURSIVE NatToString(_)
NatToString(n) ==
  IF n < 10 THEN <<Digits[n + 1]>>
  ELSE NatToString(n \div 10) \o <<Digits[(n % 10) + 1]>>

\* what a template literal makes of a value
TemplateString(v) ==
  CASE v[1] = "string"    -> v[2]
    [] v[1] = "number"    -> NatToString(v[2])
    [] v[1] = "undefined" -> <<"u", "n", "d", "e", "f", "i", "n", "e", "d">>
    [] v[1] = "null"      -> <<"n", "u", "l", "l">>
    [] OTHER              -> <<"[", "o", "b", "j", "e", "c", "t", "]">>

\* `${message.platform}:${message.channelId}`; the platform's name is kept
\* as one symbol
ChannelKey(message) == <<message.platform, ":">> \o TemplateString(message.channelId)

\* getChannels(): one scan of the store, building a Map keyed by ChannelKey
getChannels(msgs) ==
  LET F[i \in 0..Len(msgs)] ==
        IF i = 0 THEN <<>>
        ELSE LET message == msgs[i].value
                 key     == ChannelKey(message)
                 prev    == F[i - 1]
                 made    == IF MapHas(prev, key) THEN prev
                            ELSE MapSet(prev, key,
                                   [ platform     |-> message.platform,
                                     id           |-> message.channelId,
                                     name         |-> message.channelName,
                                     lastMessage  |-> message.timestamp,
                                     messageCount |-> 0 ])
                 k       == MapIdx(made, key)
                 counted == [made EXCEPT ![k].value.messageCount = @ + 1]
             IN IF message.timestamp > counted[k].value.lastMessage
                THEN [counted EXCEPT ![k].value.lastMessage = message.timestamp]
                ELSE counted
  IN MapValues(F[Len(msgs)])

\* ---------------------------------------------------------------- actions
\* one more operation of the environment
Started(S) == [S EXCEPT !.ops = @ + 1]

\* a caller (connectPlatform, the GUI) registers an adapter under its
\* platform: a new instance, or one registered before; the instances of a
\* platform are numbered in the order they are first registered
RegisterIntegration(platform, a) ==
  /\ ops < MaxOps
  /\ KindOf(a) = platform
  /\ \A i \in Instances : i < a[2] => listeners[<<platform, i>>] # <<>>
  /\ Becomes(registerIntegration(Started(State), platform, a))

RegisterAIAgent(id) ==
  /\ ops < MaxOps
  /\ Becomes(registerAIAgent(Started(State), id, AgentFor(id)))

\* the platform SDK delivers a message and the adapter emits it
AdapterEmits(a, content, channel) ==
  /\ ops < MaxOps
  /\ listeners[a] # <<>>
  /\ channel \in ChannelIdsOf(KindOf(a))
  /\ Becomes(deliver(Started(State), a, PayloadOf(KindOf(a), content, channel, inbound + 1)))

\* a consumer (HTTP route, WebSocket command, GUI) calls sendMessage
ConsumerSends(platform, channelId, content) ==
  /\ ops < MaxOps
  /\ channelId \in SendChannelIdsOf(platform)
  /\ Becomes(sendMessage(Started(State), platform, channelId, content,
                         [kind |-> "consumer", id |-> 0]))

ConsumerBroadcasts(content, options) ==
  /\ ops < MaxOps
  /\ Becomes(sendCrossChannelMessage(Started(State), content, options))

\* the promise of the adapter's sendMessage of call c has settled
AdapterSettled(S, c, outcome, with) ==
  [S EXCEPT !.calls[c].outcome = outcome, !.calls[c].settled = with]

\* the adapter's sendMessage of call c resolves; a generic adapter's result
\* may lack a messageId
AdapterSendResolves(c, withId) ==
  /\ calls[c].state = "awaitAdapter"
  /\ withId \/ calls[c].platform = "other"
  /\ LET result == AdapterResult(calls[c].platform, calls[c].channelId,
                                  IF withId THEN Num(c) ELSE Undefined)
     IN Becomes(resumeParent(
          sendMessageResolved(AdapterSettled(State, c, "succeeded", result), c, result), c))

AdapterSendRejects(c) ==
  /\ calls[c].state = "awaitAdapter"
  /\ Becomes(resumeParent(
       sendMessageRejected(AdapterSettled(State, c, "failed", SendError), c, SendError), c))

AgentResolves(t, response) ==
  /\ aiTasks[t].state = "awaitAgent"
  /\ Becomes(processWithAIResolved(State, t, response))

AgentRejects(t) ==
  /\ aiTasks[t].state = "awaitAgent"
  /\ Becomes(processWithAIRejected(State, t))

\* time passes between two reads of moment()
Tick ==
  /\ ops < MaxOps
  /\ Becomes([Started(State) EXCEPT !.now = @ + 1])

BroadcastOptions == {Undefined, Arr(<<Str(S_c1), Str(S_c2)>>)}

Next ==
  \/ \E p \in Platforms, a \in Adapters : RegisterIntegration(p, a)
  \/ \E k \in AgentKeys : RegisterAIAgent(k)
  \/ \E a \in Adapters, s \in InboundContents :
       \E ch \in ChannelIdsOf(KindOf(a)) : AdapterEmits(a, s, ch)
  \/ \E p \in Platforms : \E ch \in SendChannelIdsOf(p) : ConsumerSends(p, ch, Str(S_hello))
  \/ \E o \in BroadcastOptions : ConsumerBroadcasts(Str(S_hello), o)
  \/ \E c \in 1..Len(calls), withId \in BOOLEAN : AdapterSendResolves(c, withId)
  \/ \E c \in 1..Len(calls) : AdapterSendRejects(c)
  \/ \E t \in 1..Len(aiTasks), r \in AIResponses : AgentResolves(t, r)
  \/ \E t \in 1..Len(aiTasks) : AgentRejects(t)
  \/ Tick

Spec == Init /\ [][Next]_vars

\* the bus of an application that has started with the keys of the AI agent
\* and of Telegram configured: initializeComponents has registered the
\* 'global' agent and autoConnectPlatforms has connected and registered the
\* Telegram adapter; the start-up is one operation of the environment
Constructed ==
  [ messages |-> <<>>, integrations |-> <<>>, aiAgents |-> <<>>,
    listeners |-> [a \in Adapters |-> <<>>], uuids |-> 0, now |-> 0, emitted |-> <<>>,
    calls |-> <<>>, adapterSends |-> <<>>, aiTasks |-> <<>>, crossTasks |-> <<>>,
    inbound |-> 0, delivered |-> <<>>, handled |-> 0, evals |-> <<>>, ops |-> 0 ]

initializeComponents(S) ==
  registerIntegration(registerAIAgent(Started(S), Str(S_global), AgentFor(Str(S_global))),
                      "telegram", <<"telegram", 1>>)

\* the bus is in state S
BusIs(S) ==
  /\ messages = S.messages
  /\ integrations = S.integrations
  /\ aiAgents = S.aiAgents
  /\ listeners = S.listeners
  /\ uuids = S.uuids
  /\ now = S.now
  /\ emitted = S.emitted
  /\ calls = S.calls
  /\ adapterSends = S.adapterSends
  /\ aiTasks = S.aiTasks
  /\ crossTasks = S.crossTasks
  /\ inbound = S.inbound
  /\ delivered = S.delivered
  /\ handled = S.handled
  /\ evals = S.evals
  /\ ops = S.ops

InitRunning ==
  /\ BusIs(initializeComponents(Constructed))
  /\ constructor("telegram", TokenConfig)
  /\ AIAgentConstructor(FALSE)
  /\ NonePending

SpecRunning == InitRunning /\ [][Next]_vars

\* ------------------------------------------- what Telegram and Discord emit
S_hi == <<"h", "i">>

\* a property that is present only when it has a value
Optional(f, v) == IF v = Undefined THEN <<>> ELSE (f :> v)

\* the chats of Telegram: a group has a title, a private chat the name of
\* the other side
TelegramChat(kind) ==
  IF kind = "group" THEN Obj([id |-> Num(1), type |-> Str(<<"group">>), title |-> Str(S_team)])
  ELSE Obj([id |-> Num(2), type |-> Str(<<"private">>), first_name |-> Str(S_alice)])

TelegramMedia(kind) ==
  CASE kind = "photo"   -> [photo |-> Arr(<<Obj([file_id |-> Str(<<"p">>)])>>)]
    [] kind = "sticker" -> [sticker |-> Obj([file_id |-> Str(<<"s">>)])]
    [] OTHER            -> <<>>

\* handleMessage's processedMessage for a Telegram message: text and caption
\* are there or not, as is one media field
TelegramRaw(text, caption, media, chat, nativeId) ==
  Optional("text", text) @@ Optional("caption", caption) @@ TelegramMedia(media) @@
  [ from       |-> Obj([id |-> Num(7), username |-> Str(S_alice)]),
    chat       |-> TelegramChat(chat),
    message_id |-> Num(nativeId),
    isEdit     |-> Bool(FALSE),
    platform   |-> Str(<<"telegram">>) ]

\* the payload of an edit (Telegram's edited_message, Discord's
\* messageUpdate): the message as it was delivered, with its new text and
\* isEdit set
EditOf(kind, raw) ==
  IF kind = "telegram"
  THEN [text |-> Str(S_hi), isEdit |-> Bool(TRUE)] @@ raw
  ELSE [content |-> Str(S_hi), isEdit |-> Bool(TRUE)] @@ raw

AdapterDelivers(a, raw) ==
  /\ ops < MaxOps
  /\ listeners[a] # <<>>
  /\ Becomes(deliver(Started(State), a, raw))

\* a message the adapter has delivered is edited on the platform
AdapterDeliversEdit(a, orig) ==
  /\ ops < MaxOps
  /\ listeners[a] # <<>>
  /\ KindOf(a) \in {"telegram", "discord"}
  /\ delivered[orig].adapter = a
  /\ Becomes(deliver(Started(State), a, EditOf(KindOf(a), delivered[orig].raw)))

\* the bus of an application started with the tokens of Telegram and of
\* Discord and no key for the AI agent: autoConnectPlatforms has registered
\* the two adapters; the start-up is one operation of the environment
autoConnectPlatforms(S) ==
  registerIntegration(registerIntegration(Started(S), "telegram", <<"telegram", 1>>),
                      "discord", <<"discord", 1>>)

InitInbound ==
  /\ BusIs(autoConnectPlatforms(Constructed))
  /\ constructor("telegram", TokenConfig)
  /\ AIAgentConstructor(FALSE)
  /\ NonePending

NextInbound ==
  \/ \E text \in {Undefined, Str(S_hello)}, caption \in {Undefined, Str(S_hi)},
        media \in {"none", "photo", "sticker"}, chat \in {"group", "private"} :
       AdapterDelivers(<<"telegram", 1>>, TelegramRaw(text, caption, media, chat, inbound + 1))
  \/ \E ch \in ChannelIdsOf("discord") :
       AdapterDelivers(<<"discord", 1>>, DiscordPayload(S_hello, ch, inbound + 1))
  \/ \E a \in Adapters : \E orig \in 1..Len(delivered) : AdapterDeliversEdit(a, orig)

InboundSpec == InitInbound /\ [][NextInbound]_vars

\* ------------------------------------------------- the adapter's reconnect
\* the constructor's defaults
maxReconnectAttempts == 5
reconnectDelay == 1000

\* how many operations the environment starts on the adapter
MaxAdapterOps == 2

\* the subclasses of BaseIntegration
AdapterPlatforms == {"telegram", "slack", "discord"}

\* the adapter as the bus knows it: the one instance of its platform
Self == <<adapterPlatform, 1>>

\* the adapter as one record; `subscribers` are the bus's listeners on it
Adapter ==
  [ platform |-> adapterPlatform, config |-> config,
    connected |-> connected, reconnectAttempts |-> reconnectAttempts, timers |-> timers,
    connects |-> connects, scheduled |-> scheduled, adapterEvents |-> adapterEvents,
    chains |-> chains, drops |-> drops, clock |-> clock, adapterOps |-> adapterOps,
    client |-> client, sendAttempts |-> sendAttempts, checks |-> checks,
    subscribers |-> listeners[Self] ]

\* the bus after its listeners have run for the events the adapter emits
\* from index `from` on
RECURSIVE Forwarded(_, _, _)
Forwarded(S, A, from) ==
  IF from > Len(A.adapterEvents) THEN S
  ELSE LET e == A.adapterEvents[from]
       IN Forwarded(IF e.type = "status" THEN emitStatusToBus(S, A.subscribers, e.value) ELSE S,
                    A, from + 1)

\* the adapter becomes A and the bus S
PlatformBecomes(A, S) ==
  /\ connected' = A.connected
  /\ reconnectAttempts' = A.reconnectAttempts
  /\ timers' = A.timers
  /\ connects' = A.connects
  /\ scheduled' = A.scheduled
  /\ adapterEvents' = A.adapterEvents
  /\ chains' = A.chains
  /\ drops' = A.drops
  /\ clock' = A.clock
  /\ adapterOps' = A.adapterOps
  /\ client' = A.client
  /\ sendAttempts' = A.sendAttempts
  /\ checks' = A.checks
  /\ UNCHANGED <<adapterPlatform, config>>
  /\ UNCHANGED agentVars
  /\ UNCHANGED pendingVars
  /\ BusBecomes(S)

\* the adapter becomes A, and the bus's listeners have run for what it emitted
AdapterBecomes(A) == PlatformBecomes(A, Forwarded(State, A, Len(adapterEvents) + 1))

MaxAttemptsError == <<"Max reconnect attempts reached">>
ConnectError == <<"connect failed">>
SdkError == <<"sdk error">>
ProbeError == <<"probe failed">>
NotConnectedError == <<"client not connected">>

\* the connect() calls made by handleReconnect's timers, and those that failed
TimerConnectsIn(A) == {c \in 1..Len(A.connects) : A.connects[c].by = "timer"}
FailedConnectsIn(A) == {c \in TimerConnectsIn(A) : A.connects[c].state = "rejected"}

\* this.emit(type, value) of the adapter; the event is recorded with the
\* numbers of timers set and of reconnect attempts made and failed before it,
\* and with the number of listeners of the bus that receive it.
\* (An 'error' event with no listener is thrown by emit to its caller, which
\* here is an async function that ends there.)
emit(A, type, value) ==
  [A EXCEPT !.adapterEvents = Append(@,
     [ type |-> type, value |-> value, scheduled |-> Len(A.scheduled),
       received |-> IF type \in SubscribedTypes THEN Len(A.subscribers) ELSE 0,
       registered |-> (A.subscribers # <<>>),
       attempts |-> Cardinality(TimerConnectsIn(A)),
       failed |-> Cardinality(FailedConnectsIn(A)) ])]

emitStatus(A, status) ==
  emit([A EXCEPT !.connected = (status = "connected")], "status", status)

emitError(A, error) == emit(A, "error", error)

\* what is recorded of a setTimeout of handleReconnect: the chain (the
\* outside call of handleReconnect it descends from), the delay, when it is
\* due, and how many reconnects had succeeded when it was set
TimerOf(A, chain, delay) ==
  [ chain |-> chain,
    delay |-> delay,
    due |-> A.clock + delay,
    successes |-> Cardinality({c \in TimerConnectsIn(A) : A.connects[c].state = "resolved"}) ]

\* mutant: the bound is tested with > instead of >=
handleReconnectOffByOne(A, chain) ==
  IF A.reconnectAttempts > maxReconnectAttempts
  THEN emit(A, "error", MaxAttemptsError)
  ELSE LET n == A.reconnectAttempts + 1
       IN [A EXCEPT !.reconnectAttempts = n,
                    !.timers = @ \cup {Len(A.scheduled) + 1},
                    !.scheduled = Append(@, TimerOf(A, chain, reconnectDelay * n))]

\* mutant: every attempt waits the base delay
handleReconnectFixedDelay(A, chain) ==
  IF A.reconnectAttempts >= maxReconnectAttempts
  THEN emit(A, "error", MaxAttemptsError)
  ELSE LET n == A.reconnectAttempts + 1
       IN [A EXCEPT !.reconnectAttempts = n,
                    !.timers = @ \cup {Len(A.scheduled) + 1},
                    !.scheduled = Append(@, TimerOf(A, chain, reconnectDelay))]

\* handleReconnect up to its return: the terminal error, or the counter
\* incremented and the timer set
handleReconnect(A, chain) ==
  IF A.reconnectAttempts >= maxReconnectAttempts
  THEN emit(A, "error", MaxAttemptsError)
  ELSE LET n == A.reconnectAttempts + 1
       IN [A EXCEPT !.reconnectAttempts = n,
                    !.timers = @ \cup {Len(A.scheduled) + 1},
                    !.scheduled = Append(@, TimerOf(A, chain, reconnectDelay * n))]

\* validateConfig(): the subclass's tokens are there
validateConfig(p, cfg) ==
  IF p = "slack" THEN Truthy(cfg.botToken) /\ Truthy(cfg.appToken) ELSE Truthy(cfg.botToken)

\* connect() c rejected: its catch emits the error and throws it again; the
\* timer callback's catch calls handleReconnect
connectRejected(A, c) ==
  LET A1 == emitError([A EXCEPT !.connects[c].state = "rejected"], ConnectError)
  IN IF A.connects[c].by = "timer" THEN handleReconnect(A1, A.connects[c].chain) ELSE A1

\* connect() up to its await of the platform SDK: without the tokens it
\* throws before it makes the SDK handle, and the call is rejected at once;
\* with them the handle is made and the SDK started
connect(A, by, chain) ==
  LET ok == validateConfig(A.platform, A.config)
      A1 == [A EXCEPT !.connects = Append(@, [ by |-> by, chain |-> chain, state |-> "pending",
                                               launched |-> ok,
                                               scheduled |-> Len(A.scheduled),
                                               connected |-> A.connected ])]
  IN IF ok THEN [A1 EXCEPT !.client = TRUE] ELSE connectRejected(A1, Len(A1.connects))

\* handleReconnect's timer callback up to `await this.connect()`
timerCallback(A, id) ==
  connect([A EXCEPT !.timers = @ \ {id}], "timer", A.scheduled[id].chain)

\* connect() c resolved: the status is emitted; in the timer callback the
\* counter is reset
connectResolved(A, c) ==
  LET A1 == emitStatus([A EXCEPT !.connects[c].state = "resolved"], "connected")
  IN IF A.connects[c].by = "timer" THEN [A1 EXCEPT !.reconnectAttempts = 0] ELSE A1

\* disconnect(), called by the application: the SDK handle is dropped and
\* the status emitted
disconnect(A) == emitStatus([A EXCEPT !.client = FALSE], "disconnected")

\* the SDK's 'reconnecting' event, which only the Discord adapter listens to
sdkReconnecting(A) == emitStatus(A, "reconnecting")

\* an error of the SDK while it runs (bot.catch, the clients' 'error' events)
sdkError(A) == emitError(A, SdkError)

\* the platform SDK's 'disconnect' event: Slack's and Discord's handlers emit
\* the status; the Telegram adapter registers no handler for it
sdkDisconnect(A, p) ==
  LET A1 == IF p \in {"slack", "discord"} THEN emitStatus(A, "disconnected") ELSE A
  IN [A1 EXCEPT !.drops = Append(@, [ observed |-> (p \in {"slack", "discord"}),
                                      connects |-> Len(A.connects) ])]

\* the last connect() call has failed and none has connected the adapter
ConnectFailed(A) ==
  /\ A.connects # <<>>
  /\ A.connects[Len(A.connects)].state = "rejected"
  /\ \A c \in 1..Len(A.connects) : A.connects[c].state # "resolved"

\* the adapter's sendMessage up to its first await: without the SDK handle
\* it throws, with it the SDK is asked to send
adapterSendMessage(A) ==
  [A EXCEPT !.sendAttempts = Append(@,
     [ reached |-> A.client, error |-> IF A.client THEN <<>> ELSE NotConnectedError,
       connected |-> A.connected, connects |-> Len(A.connects),
       failed |-> ConnectFailed(A) ])]

\* BaseIntegration.healthCheck
baseCheck(A) ==
  [ platform |-> A.platform, connected |-> A.connected, lastActivity |-> A.clock,
    config |-> validateConfig(A.platform, A.config) ]

\* whether healthCheck asks the SDK: Telegram (getMe) and Slack (auth.test)
\* ask it when the handle is set, Discord reads the handle's user, which is
\* there once the client has logged in
Probes(A) ==
  IF A.platform = "discord"
  THEN A.client /\ \E c \in 1..Len(A.connects) :
           /\ A.connects[c].state = "resolved"
           /\ \A d \in (c + 1)..Len(A.connects) : ~A.connects[d].launched
  ELSE A.client

\* mutant: the probe is made outside the try
healthCheckUncaught(A, probeFails) ==
  LET base == baseCheck(A)
  IN [A EXCEPT !.checks = Append(@,
        [ probed |-> Probes(A), probeFails |-> probeFails,
          threw  |-> Probes(A) /\ probeFails,
          result |-> IF Probes(A) /\ ~probeFails THEN [info |-> TRUE] @@ base ELSE base ])]

\* the subclass's healthCheck: the base result, with the SDK's answer when
\* it is asked and answers, and with the error's message when it fails
healthCheck(A, probeFails) ==
  LET base == baseCheck(A)
  IN [A EXCEPT !.checks = Append(@,
        [ probed |-> Probes(A), probeFails |-> probeFails,
          threw  |-> FALSE,
          result |-> IF ~Probes(A) THEN base
                     ELSE IF probeFails THEN [error |-> ProbeError] @@ base
                     ELSE [info |-> TRUE] @@ base ])]

\* the chains that still have a timer pending or a connect() in flight
ActiveChains(A) ==
  {A.scheduled[t].chain : t \in A.timers}
    \cup {A.connects[c].chain : c \in {d \in TimerConnectsIn(A) : A.connects[d].state = "pending"}}

AdapterStarted(A) == [A EXCEPT !.adapterOps = @ + 1]

\* a caller calls connect() on the adapter
Connect ==
  /\ adapterOps < MaxAdapterOps
  /\ AdapterBecomes(connect(AdapterStarted(Adapter), "caller", 0))

\* a caller calls disconnect() on the adapter
Disconnect ==
  /\ adapterOps < MaxAdapterOps
  /\ AdapterBecomes(disconnect(AdapterStarted(Adapter)))

\* the platform drops the connection of a connected adapter
SdkDisconnects ==
  /\ adapterOps < MaxAdapterOps
  /\ connected
  /\ AdapterBecomes(sdkDisconnect(AdapterStarted(Adapter), adapterPlatform))

\* a caller outside the class starts handleReconnect, whether or not an
\* earlier call's timers and attempts are still pending
HandleReconnect ==
  /\ adapterOps < MaxAdapterOps
  /\ LET A1 == [AdapterStarted(Adapter) EXCEPT
                  !.chains = Append(@, [attempts |-> reconnectAttempts, clock |-> clock])]
     IN AdapterBecomes(handleReconnect(A1, Len(A1.chains)))

\* a timer of handleReconnect expires: the earliest due, once the clock has
\* reached it
TimerFires(id) ==
  /\ id \in timers
  /\ scheduled[id].due <= clock
  /\ \A t \in timers : \/ scheduled[id].due < scheduled[t].due
                        \/ (scheduled[id].due = scheduled[t].due /\ id <= t)
  /\ AdapterBecomes(timerCallback(Adapter, id))

\* time passes while timers are pending and none is due
TimePasses ==
  /\ timers # {}
  /\ \A t \in timers : scheduled[t].due > clock
  /\ AdapterBecomes([Adapter EXCEPT !.clock = @ + reconnectDelay])

\* the SDK is started: connect() c resolves, and connectPlatform, when it
\* made the call, goes on to register the adapter
ConnectSucceeds(c) ==
  /\ connects[c].state = "pending"
  /\ LET A == connectResolved(Adapter, c)
         S == Forwarded(State, A, Len(adapterEvents) + 1)
     IN PlatformBecomes(A, IF connects[c].by = "server"
                           THEN registerIntegration(S, adapterPlatform, Self)
                           ELSE S)

ConnectFails(c) ==
  /\ connects[c].state = "pending"
  /\ AdapterBecomes(connectRejected(Adapter, c))

\* an adapter just constructed, of any of the three subclasses, beside a bus
\* just constructed
InitAdapter ==
  /\ BusIs(Constructed)
  /\ \E p \in AdapterPlatforms : constructor(p, TokenConfig)
  /\ AIAgentConstructor(FALSE)
  /\ NonePending

NextAdapter ==
  \/ Connect
  \/ Disconnect
  \/ SdkDisconnects
  \/ HandleReconnect
  \/ \E id \in 1..Len(scheduled) : TimerFires(id)
  \/ TimePasses
  \/ \E c \in 1..Len(connects) : ConnectSucceeds(c)
  \/ \E c \in 1..Len(connects) : ConnectFails(c)

ReconnectSpec == InitAdapter /\ [][NextAdapter]_vars

\* --------------------------------------------- the adapter beside the bus
\* the server's connectPlatform: a new instance of the platform's subclass
\* is made with the request's configuration and its connect() awaited
ConnectPlatform ==
  /\ adapterOps < MaxAdapterOps
  /\ connects = <<>>
  /\ AdapterBecomes(connect(AdapterStarted(Adapter), "server", 0))

\* the server's disconnectPlatform: the registered adapter is disconnected
\* and its entry deleted
DisconnectPlatform ==
  /\ adapterOps < MaxAdapterOps
  /\ MapHas(integrations, adapterPlatform)
  /\ LET A == disconnect(AdapterStarted(Adapter))
     IN PlatformBecomes(A, integrationsDelete(Forwarded(State, A, Len(adapterEvents) + 1),
                                              adapterPlatform))

\* Discord's SDK reports that it is reconnecting
SdkReconnecting ==
  /\ adapterOps < MaxAdapterOps
  /\ adapterPlatform = "discord"
  /\ client
  /\ AdapterBecomes(sdkReconnecting(AdapterStarted(Adapter)))

\* the SDK reports an error while it runs
SdkFails ==
  /\ adapterOps < MaxAdapterOps
  /\ client
  /\ AdapterBecomes(sdkError(AdapterStarted(Adapter)))

\* sendMessage is called on the adapter
AdapterSendMessage ==
  /\ adapterOps < MaxAdapterOps
  /\ AdapterBecomes(adapterSendMessage(AdapterStarted(Adapter)))

\* healthCheck is called on the adapter; the SDK, if asked, answers or fails
HealthCheck(probeFails) ==
  /\ adapterOps < MaxAdapterOps
  /\ AdapterBecomes(healthCheck(AdapterStarted(Adapter), probeFails))

\* an adapter of any subclass, made with or without its tokens, beside a bus
\* just constructed
InitPlatform ==
  /\ BusIs(Constructed)
  /\ \E p \in AdapterPlatforms, cfg \in Configs : constructor(p, cfg)
  /\ AIAgentConstructor(FALSE)
  /\ NonePending

NextPlatform ==
  \/ ConnectPlatform
  \/ DisconnectPlatform
  \/ Connect
  \/ Disconnect
  \/ SdkDisconnects
  \/ SdkReconnecting
  \/ SdkFails
  \/ AdapterSendMessage
  \/ \E probeFails \in BOOLEAN : HealthCheck(probeFails)
  \/ \E c \in 1..Len(connects) : ConnectSucceeds(c)
  \/ \E c \in 1..Len(connects) : ConnectFails(c)

PlatformSpec == InitPlatform /\ [][NextPlatform]_vars

\* -------------------------------------------------------------- the AIAgent
\* the length processMessage trims a conversation's history to
maxHistory == 20

\* how many processMessage calls are made, and how many of them may be
\* waiting for the model at once
MaxAgentCalls == 11
MaxGenerating == 2

S_sorry == <<"S", "o", "r", "r", "y">>
SorryResponse == Str(S_sorry)

\* the replies of the model before they are trimmed: blank, a plain text, a
\* text that names the agent
S_blank == <<" ">>
S_padded == <<" ", "o", "k", " ">>
S_mention == <<"@", "a", "i", " ", "o", "k">>
Completions == {S_blank, S_padded, S_mention}

Agent ==
  [ conversationHistory |-> conversationHistory, agentChannels |-> agentChannels,
    crossChannelMode |-> crossChannelMode, generating |-> generating,
    agentCalls |-> agentCalls, aiConfigs |-> aiConfigs ]

AgentIs(G) ==
  /\ conversationHistory' = G.conversationHistory
  /\ agentChannels' = G.agentChannels
  /\ crossChannelMode' = G.crossChannelMode
  /\ generating' = G.generating
  /\ agentCalls' = G.agentCalls
  /\ aiConfigs' = G.aiConfigs

\* the agent becomes G; the bus and the adapter stay as they are
AgentBecomes(G) ==
  /\ AgentIs(G)
  /\ UNCHANGED busVars
  /\ UNCHANGED adapterVars
  /\ UNCHANGED pendingVars

\* String.prototype.toLowerCase
UpperCase == <<"A", "B", "C", "D", "E", "F", "G", "H", "I", "J", "K", "L", "M",
               "N", "O", "P", "Q", "R", "S", "T", "U", "V", "W", "X", "Y", "Z">>
LowerCase == <<"a", "b", "c", "d", "e", "f", "g", "h", "i", "j", "k", "l", "m",
               "n", "o", "p", "q", "r", "s", "t", "u", "v", "w", "x", "y", "z">>
toLowerCase(s) ==
  [i \in 1..Len(s) |->
     IF \E k \in 1..Len(UpperCase) : UpperCase[k] = s[i]
     THEN LowerCase[CHOOSE k \in 1..Len(UpperCase) : UpperCase[k] = s[i]]
     ELSE s[i]]

\* String.prototype.trim
RECURSIVE trim(_)
trim(s) ==
  IF s = <<>> THEN s
  ELSE IF Head(s) = " " THEN trim(Tail(s))
  ELSE IF s[Len(s)] = " " THEN trim(SubSeq(s, 1, Len(s) - 1))
  ELSE s

\* shouldRespond's triggers
Triggers ==
  { <<"@", "a", "i">>, <<"/", "a", "i">>, <<"h", "e", "y", " ", "a", "i">>,
    <<"a", "i", " ", "h", "e", "l", "p">>,
    <<"u", "n", "i", "f", "i", "m", "e", "s", "s", "e", "n", "g", "e", "r">>,
    <<"@", "u", "n", "i", "f", "i", "m", "e", "s", "s", "e", "n", "g", "e", "r">> }

\* shouldRespond(message): "yes", "no", or "throws" when a channel id that is
\* not a string is asked for includes
shouldRespond(G, message) ==
  IF \E trigger \in Triggers : Includes(toLowerCase(message.content[2]), trigger) THEN "yes"
  ELSE IF message.channelId[1] # "string" THEN "throws"
  ELSE IF Includes(message.channelId[2], <<"a", "i">>) \/ G.crossChannelMode THEN "yes"
  ELSE "no"

\* the entries of a conversation, or none
HistoryOf(G, key) ==
  IF MapHas(G.conversationHistory, key) THEN MapGet(G.conversationHistory, key) ELSE <<>>

\* processMessage's first lines: the entry of the user is pushed and the
\* history cut to its last maxHistory entries
pushUser(G, key) ==
  LET h == Append(HistoryOf(G, key), "user")
  IN [G EXCEPT !.conversationHistory =
        MapSet(@, key, IF Len(h) > maxHistory
                       THEN SubSeq(h, Len(h) - maxHistory + 1, Len(h)) ELSE h)]

\* processMessage as call `id`, up to `await this.generateResponse(...)` or
\* to its return: what the agent becomes, and what the call returns if it
\* does not wait for the model
processMessage(G, id, message) ==
  LET key == ChannelKey(message)
      G1  == [pushUser(G, key) EXCEPT !.agentCalls = @ + 1]
      r   == shouldRespond(G, message)
  IN CASE r = "yes"    -> [ agent |-> [G1 EXCEPT !.generating =
                                         @ \cup {[id |-> id, key |-> key, detached |-> FALSE]}],
                            awaits |-> TRUE, result |-> Undefined ]
       [] r = "throws" -> [agent |-> G1, awaits |-> FALSE, result |-> SorryResponse]
       [] OTHER        -> [agent |-> G1, awaits |-> FALSE, result |-> Null]

\* the call's entry in `generating`
CallOf(G, id) == CHOOSE e \in G.generating : e.id = id

\* generateResponse resolved with the model's text: it is trimmed, and a
\* text that is not empty is pushed to the call's history array and returned
processMessageResolved(G, id, completion) ==
  LET e == CallOf(G, id)
      response == Str(trim(completion))
      G1 == [G EXCEPT !.generating = @ \ {e}]
  IN IF Truthy(response)
     THEN [ agent  |-> IF e.detached THEN G1
                       ELSE [G1 EXCEPT !.conversationHistory =
                               MapSet(@, e.key, Append(HistoryOf(G1, e.key), "assistant"))],
            result |-> response ]
     ELSE [agent |-> G1, result |-> Null]

\* generateResponse rejected: processMessage's catch returns the apology
processMessageRejected(G, id) ==
  [agent |-> [G EXCEPT !.generating = @ \ {CallOf(G, id)}], result |-> SorryResponse]

\* the messages processMessage is called with
AgentMessage(platform, channelId, content) ==
  [platform |-> platform, channelId |-> channelId, content |-> Str(content)]

\* a caller hands the agent a message
ProcessMessage(platform, channelId, content) ==
  /\ agentCalls < MaxAgentCalls
  /\ Cardinality(generating) < MaxGenerating
  /\ AgentBecomes(processMessage(Agent, agentCalls + 1,
                                  AgentMessage(platform, channelId, content)).agent)

\* the model answers call id
GenerationResolves(id, completion) ==
  /\ \E e \in generating : e.id = id
  /\ AgentBecomes(processMessageResolved(Agent, id, completion).agent)

\* the model call of call id fails
GenerationRejects(id) ==
  /\ \E e \in generating : e.id = id
  /\ AgentBecomes(processMessageRejected(Agent, id).agent)

\* an agent just constructed, beside a bus and an adapter just constructed
InitHistory ==
  /\ BusIs(Constructed)
  /\ constructor("telegram", TokenConfig)
  /\ \E mode \in BOOLEAN : AIAgentConstructor(mode)
  /\ NonePending

NextHistory ==
  \/ \E content \in {S_hello, S_weather} : ProcessMessage("slack", Str(S_c1), content)
  \/ \E id \in 1..MaxAgentCalls : GenerationRejects(id)
  \/ \E id \in 1..MaxAgentCalls, completion \in Completions : GenerationResolves(id, completion)

HistorySpec == InitHistory /\ [][NextHistory]_vars

\* ------------------------------------------- the AIAgent behind the bus
\* `${platform}:${channelId}`
AgentKey(platform, channelId) == ChannelKey([platform |-> platform, channelId |-> channelId])

\* addChannel(platform, channelId, config)
addChannel(G, platform, channelId) ==
  [G EXCEPT !.agentChannels =
     MapSet(@, AgentKey(platform, channelId),
            [platform |-> platform, channelId |-> channelId, enabled |-> TRUE])]

\* removeChannel(platform, channelId): the channel's configuration and its
\* history are deleted; a call that waits for the model keeps the array it
\* read before
removeChannel(G, platform, channelId) ==
  LET key == AgentKey(platform, channelId)
  IN [G EXCEPT !.agentChannels = SelectSeq(@, LAMBDA e : e.key # key),
               !.conversationHistory = SelectSeq(@, LAMBDA e : e.key # key),
               !.generating = {IF e.key = key THEN [e EXCEPT !.detached = TRUE] ELSE e : e \in @}]

S_chat == <<"c", "h", "a", "t">>
S_cross_channel == <<"c", "r", "o", "s", "s", "-", "c", "h", "a", "n", "n", "e", "l">>

\* the server's handling of the command ai_config: data.mode, and, when
\* data.channel and data.platform are both given (targeted), data.disable
aiConfig(G, mode, targeted, platform, channelId, disable, inboundSoFar) ==
  LET G1 == IF Truthy(mode)
            THEN [G EXCEPT !.crossChannelMode = (mode = Str(S_cross_channel))] ELSE G
      G2 == IF ~targeted THEN G1
            ELSE IF disable THEN removeChannel(G1, platform, channelId)
            ELSE addChannel(G1, platform, channelId)
  IN [G2 EXCEPT !.aiConfigs =
        Append(@, [ targeted |-> targeted, key |-> AgentKey(platform, channelId),
                    disable |-> disable, inbound |-> inboundSoFar ])]

\* the message of processWithAI call t as the agent reads it
TaskMessage(S, t) ==
  [ platform |-> S.aiTasks[t].platform, channelId |-> S.aiTasks[t].channelId,
    content |-> S.aiTasks[t].content ]

\* the processWithAI calls from t on call the agent's processMessage; a call
\* that returns without waiting for the model resumes processWithAI
RECURSIVE callAgent(_, _, _)
callAgent(G, S, t) ==
  IF t > Len(S.aiTasks) THEN [agent |-> G, bus |-> S]
  ELSE IF S.aiTasks[t].state # "awaitAgent" THEN callAgent(G, S, t + 1)
  ELSE LET r == processMessage(G, t, TaskMessage(S, t))
       IN IF r.awaits THEN callAgent(r.agent, S, t + 1)
          ELSE callAgent(r.agent, processWithAIResolved(S, t, r.result), t + 1)

\* the agent becomes G and the bus S
AgentBusBecomes(r) ==
  /\ AgentIs(r.agent)
  /\ BusBecomes(r.bus)
  /\ UNCHANGED adapterVars
  /\ UNCHANGED pendingVars

\* the platform SDK delivers a message, the adapter emits it, and the bus
\* hands it to the agent if it is eligible
InboundToAgent(a, content, channel) ==
  /\ ops < MaxOps
  /\ listeners[a] # <<>>
  /\ channel \in ChannelIdsOf(KindOf(a))
  /\ AgentBusBecomes(callAgent(Agent,
        deliver(Started(State), a, PayloadOf(KindOf(a), content, channel, inbound + 1)),
        Len(aiTasks) + 1))

\* the model answers the call of processWithAI call t
AgentAnswers(t, completion) ==
  /\ \E e \in generating : e.id = t
  /\ LET r == processMessageResolved(Agent, t, completion)
     IN AgentBusBecomes([agent |-> r.agent, bus |-> processWithAIResolved(State, t, r.result)])

\* the model call of processWithAI call t fails
AgentFails(t) ==
  /\ \E e \in generating : e.id = t
  /\ LET r == processMessageRejected(Agent, t)
     IN AgentBusBecomes([agent |-> r.agent, bus |-> processWithAIResolved(State, t, r.result)])

\* a client sends the command ai_config
AiConfig(mode, targeted, platform, channelId, disable) ==
  /\ ops < MaxOps
  /\ AgentBusBecomes([ agent |-> aiConfig(Agent, mode, targeted, platform, channelId, disable,
                                         inbound),
                       bus |-> Started(State) ])

\* the application started with the keys of the AI agent and of Telegram:
\* the agent registered as 'global' is the AIAgent
InitAgentBus ==
  /\ BusIs(initializeComponents(Constructed))
  /\ constructor("telegram", TokenConfig)
  /\ \E mode \in BOOLEAN : AIAgentConstructor(mode)
  /\ NonePending

NextAgentBus ==
  \/ \E content \in InboundContents, channel \in ChannelIdsOf("telegram") :
       InboundToAgent(<<"telegram", 1>>, content, channel)
  \/ \E t \in 1..Len(aiTasks) : AgentFails(t)
  \/ \E t \in 1..Len(aiTasks), completion \in Completions : AgentAnswers(t, completion)
  \/ \E mode \in {Undefined, Str(S_chat), Str(S_cross_channel)}, targeted, disable \in BOOLEAN,
        channelId \in {Num(1), Str(<<"1">>)} :
       AiConfig(mode, targeted, "telegram", channelId, disable)
  \/ \E c \in 1..Len(calls), withId \in BOOLEAN : AdapterSendResolves(c, withId)
  \/ \E c \in 1..Len(calls) : AdapterSendRejects(c)

AgentSpec == InitAgentBus /\ [][NextAgentBus]_vars

\* ------------------------------------- the server's disconnectPlatform
\* the bus, and beside it the calls of disconnectPlatform and of Slack's
\* handleMessage
PendingBecomes(S, D, K) ==
  /\ BusBecomes(S)
  /\ disconnecting' = D
  /\ acking' = K
  /\ UNCHANGED adapterVars
  /\ UNCHANGED agentVars

\* disconnectPlatform up to the adapter's `await this.bot.stop()` (Slack:
\* socketClient.disconnect(), Discord: client.destroy()); a registered
\* adapter has been connected and holds its SDK handle.  Without an adapter
\* for the platform the call does nothing.
disconnectPlatformCalled(S, D, platform) ==
  IF MapHas(S.integrations, platform)
  THEN Append(D, [ platform |-> platform, integration |-> MapGet(S.integrations, platform),
                   state |-> "stopping" ])
  ELSE D

\* the SDK has stopped: the adapter's disconnect() emits the status
\* 'disconnected' to its listeners and returns
disconnectResumed(S, call) ==
  emitStatusToBus(S, S.listeners[call.integration[2]], "disconnected")

\* disconnectPlatform after `await integration.disconnect()`
disconnectPlatformResumed(S, call) == integrationsDelete(S, call.platform)

DisconnectPlatformCalled(platform) ==
  /\ ops < MaxOps
  /\ PendingBecomes(Started(State), disconnectPlatformCalled(State, disconnecting, platform),
                    acking)

SdkStopped(d) ==
  /\ disconnecting[d].state = "stopping"
  /\ PendingBecomes(disconnectResumed(State, disconnecting[d]),
                    [disconnecting EXCEPT ![d].state = "stopped"], acking)

DisconnectPlatformResumes(d) ==
  /\ disconnecting[d].state = "stopped"
  /\ PendingBecomes(disconnectPlatformResumed(State, disconnecting[d]),
                    [disconnecting EXCEPT ![d].state = "done"], acking)

\* the application has started with the keys of the AI agent, of Telegram
\* and of Slack; the operations are counted from here
autoConnected(S) ==
  [registerIntegration(initializeComponents(S), "slack", <<"slack", 1>>) EXCEPT !.ops = 0]

InitUnregister ==
  /\ BusIs(autoConnected(Constructed))
  /\ constructor("telegram", TokenConfig)
  /\ AIAgentConstructor(FALSE)
  /\ NonePending

NextUnregister ==
  \/ \E a \in {<<"telegram", 1>>, <<"telegram", 2>>, <<"slack", 1>>}, s \in {S_ai_at, S_hello} :
       \E ch \in ChannelIdsOf(KindOf(a)) : AdapterEmits(a, s, ch)
  \/ RegisterIntegration("telegram", <<"telegram", 2>>)
  \/ \E p \in {"telegram", "slack"} : DisconnectPlatformCalled(p)
  \/ \E d \in 1..Len(disconnecting) : SdkStopped(d)
  \/ \E d \in 1..Len(disconnecting) : DisconnectPlatformResumes(d)
  \/ \E t \in 1..Len(aiTasks) : AgentRejects(t)
  \/ \E t \in 1..Len(aiTasks), r \in AIResponses : AgentResolves(t, r)
  \/ \E c \in 1..Len(calls) : AdapterSendRejects(c)
  \/ \E c \in 1..Len(calls) : AdapterSendResolves(c, TRUE)

UnregisterSpec == InitUnregister /\ [][NextUnregister]_vars

\* ------------------------------------------ sends and broadcasts at run time
\* the application has started (Telegram and Slack registered); Telegram
\* messages come in, and consumers send to Telegram chats and broadcast
NextBroadcast ==
  \/ \E ch \in ChannelIdsOf("telegram") : AdapterEmits(<<"telegram", 1>>, S_hello, ch)
  \/ \E ch \in SendChannelIdsOf("telegram") : ConsumerSends("telegram", ch, Str(S_hello))
  \/ ConsumerBroadcasts(Str(S_hello), Undefined)
  \/ \E c \in 1..Len(calls) : AdapterSendRejects(c)
  \/ \E c \in 1..Len(calls) : AdapterSendResolves(c, TRUE)

BroadcastSpec == InitUnregister /\ [][NextBroadcast]_vars

\* ------------------------------------- the Slack adapter's handleMessage
\* how many events the SocketModeClient hands to the adapter
MaxSlackEvents == 3

S_bot_message == <<"bot_message">>

\* an event of the SocketModeClient, numbered by its place in the order of
\* delivery; the subtype is there or not
SlackEvent(content, channel, ts, subtype) ==
  [ text |-> content, user |-> Str(S_alice), channel |-> channel, ts |-> ts,
    subtype |-> subtype ]

\* what Slack may put in the subtype of a message event
SlackSubtypes == {Undefined, Str(S_bot_message)}

\* handleMessage up to `await ack()`: the SocketModeClient passes ack with
\* every event.  `echoOf` is the sendMessage call that posted the message,
\* 0 for a message of somebody else.
slackHandleMessage(K, event, echoOf) ==
  Append(K, [ event |-> event, echoOf |-> echoOf, state |-> "acking", emission |-> 0 ])

\* handleMessage after ack() resolved, for call k: an event of subtype
\* 'bot_message' is dropped, any other is emitted to the listeners
slackHandleMessageResumed(S, K, k) ==
  LET event == K[k].event
  IN IF event.subtype = Str(S_bot_message)
     THEN [ bus |-> S, acking |-> [K EXCEPT ![k].state = "dropped"] ]
     ELSE [ bus |-> deliver(S, <<"slack", 1>>, SlackPayload(event.text, event.channel, event.ts)),
            acking |-> [K EXCEPT ![k].state = "emitted", ![k].emission = S.inbound + 1] ]

\* handleMessage after ack() rejected: the call ends with the error
slackHandleMessageRejected(K, k) == [K EXCEPT ![k].state = "failed"]

\* the SocketModeClient delivers a message somebody posted
SlackSdkDelivers(content, channel, subtype) ==
  /\ ops < MaxOps
  /\ Len(acking) < MaxSlackEvents
  /\ PendingBecomes(Started(State), disconnecting,
                    slackHandleMessage(acking,
                      SlackEvent(content, channel, Len(acking) + 1, subtype), 0))

\* the SocketModeClient delivers the message that the application posted
\* itself with call c
SlackSdkEchoes(c, subtype) ==
  /\ Len(acking) < MaxSlackEvents
  /\ calls[c].platform = "slack"
  /\ calls[c].state = "resolved"
  /\ \A k \in 1..Len(acking) : acking[k].echoOf # c
  /\ PendingBecomes(State, disconnecting,
                    slackHandleMessage(acking,
                      SlackEvent(calls[c].content[2], calls[c].channelId, Len(acking) + 1,
                                 subtype), c))

AckResolves(k) ==
  /\ acking[k].state = "acking"
  /\ LET r == slackHandleMessageResumed(State, acking, k)
     IN PendingBecomes(r.bus, disconnecting, r.acking)

AckRejects(k) ==
  /\ acking[k].state = "acking"
  /\ PendingBecomes(State, disconnecting, slackHandleMessageRejected(acking, k))

\* what the model answers with: a text, which may name the agent
SlackReplies == {Str(S_reply), Str(S_weather)}

NextSlack ==
  \/ \E content \in {S_hello, S_weather}, subtype \in SlackSubtypes :
       SlackSdkDelivers(content, Str(S_c1), subtype)
  \/ \E c \in 1..Len(calls), subtype \in SlackSubtypes : SlackSdkEchoes(c, subtype)
  \/ \E k \in 1..Len(acking) : AckRejects(k)
  \/ \E k \in 1..Len(acking) : AckResolves(k)
  \/ \E t \in 1..Len(aiTasks), r \in SlackReplies : AgentResolves(t, r)
  \/ \E c \in 1..Len(calls) : AdapterSendResolves(c, TRUE)

SlackSpec == InitUnregister /\ [][NextSlack]_vars

\* ------------------------------------------------------------- the claims
SeqToSet(seq) == {seq[i] : i \in 1..Len(seq)}
EventsOf(type, id) ==
  {e \in 1..Len(emitted) : emitted[e].type = type /\ emitted[e].message = id}

\* C1 (as claimed): whenever the adapter's send succeeds, sendMessage(P, C,
\* content) returns the adapter's result, has added one message to the store
\* whose author id is "bot", and has emitted one message_sent event carrying
\* that message, for every registered platform P.
C1_SendStoresBotMessage ==
  \A c \in 1..Len(calls) :
    calls[c].outcome = "succeeded" =>
      /\ calls[c].state = "resolved"
      /\ calls[c].value = calls[c].settled
      /\ MapHas(messages, calls[c].stored)
      /\ Get(MapGet(messages, calls[c].stored).author, "id") = Str(S_bot)
      /\ Cardinality(EventsOf("message_sent", calls[c].stored)) = 1

\* C2 (as claimed): after a successful sendMessage(P, C, content) the stored
\* outbound message has platform P and channelId C, and
\* getMessages({platform: P, channelId: C}) contains it.
C2_SentMessageKeepsChannel ==
  \A c \in 1..Len(calls) :
    calls[c].state = "resolved" =>
      /\ MapHas(messages, calls[c].stored)
      /\ LET m == MapGet(messages, calls[c].stored)
         IN /\ m.platform = calls[c].platform
            /\ m.channelId = calls[c].channelId
            /\ m \in SeqToSet(getMessages(messages,
                   [platform |-> calls[c].platform, channelId |-> calls[c].channelId]))

\* the calls sendCrossChannelMessage task t made for platform P, in call order
CrossCalls(t, P) ==
  SelectSeq([i \in 1..Len(calls) |-> i],
            LAMBDA c : calls[c].parent = [kind |-> "cross", id |-> t] /\ calls[c].platform = P)
ResultsFor(t, P) == SelectSeq(crossTasks[t].results, LAMBDA r : r.platform = P)
IsSuccessEntry(r, P, ch) == "result" \in DOMAIN r /\ r.platform = P /\ r.channelId = ch
IsErrorEntry(r, P) == "error" \in DOMAIN r /\ r.platform = P

\* C3 (as claimed): sendCrossChannelMessage returns; for a platform whose
\* adapter's sends all succeed the result holds a success entry for every
\* target channel, and for a platform whose adapter's sends fail it holds an
\* error entry, wherever the two stand in the iteration order.
C3_CrossChannelIsolation ==
  \A t \in 1..Len(crossTasks) :
    crossTasks[t].state = "returned" =>
      \A j \in 1..Len(crossTasks[t].targets) :
        LET P   == crossTasks[t].targets[j].platform
            chs == crossTasks[t].targets[j].channels
            cs  == SeqToSet(CrossCalls(t, P))
            rs  == SeqToSet(crossTasks[t].results)
        IN /\ (cs # {} /\ \A c \in cs : calls[c].outcome = "succeeded") =>
                \A k \in 1..Len(chs) : \E r \in rs : IsSuccessEntry(r, P, chs[k])
           /\ (cs # {} /\ \A c \in cs : calls[c].outcome = "failed") =>
                \E r \in rs : IsErrorEntry(r, P)

C5_UnknownPlatformFails ==
  [][\A c \in 1..Len(calls') :
       (c > Len(calls) /\ calls'[c].parent.kind = "consumer"
          /\ ~MapHas(integrations, calls'[c].platform)) =>
         /\ calls'[c].state = "rejected"
         /\ calls'[c].value = NoIntegrationError(calls'[c].platform)
         /\ adapterSends' = adapterSends
         /\ messages' = messages
         /\ emitted' = emitted]_vars

C5_Witness ==
  \E c \in 1..Len(calls) :
    /\ calls[c].parent.kind = "consumer"
    /\ calls[c].value = NoIntegrationError(calls[c].platform)
    /\ integrations # <<>>
    /\ ~MapHas(integrations, calls[c].platform)

\* C6: when the adapter's sendMessage fails, sendMessage fails with that same
\* error, the adapter has been called once for the call, the store is left
\* unchanged and no event is emitted.
C6_AdapterFailurePropagates ==
  [][\A c \in 1..Len(calls) :
       (calls[c].outcome = "none" /\ calls'[c].outcome = "failed") =>
         /\ calls'[c].state = "rejected"
         /\ calls'[c].value = calls'[c].settled
         /\ Cardinality({i \in 1..Len(adapterSends') : adapterSends'[i].call = c}) = 1
         /\ messages' = messages
         /\ emitted' = emitted]_vars

C6_Witness ==
  \E c \in 1..Len(calls) :
    /\ calls[c].parent.kind = "consumer"
    /\ calls[c].outcome = "failed"
    /\ calls[c].state = "rejected"
    /\ calls[c].value = SendError

\* C7: the stored messages have pairwise distinct ids, and none was lost to a
\* reused id: the store holds one message per handled inbound message and per
\* sendMessage call that succeeded.
ResolvedIn(cs) == Cardinality({c \in 1..Len(cs) : cs[c].state = "resolved"})

C7_IdsUnique ==
  /\ \A i, j \in 1..Len(messages) :
       i # j => messages[i].value.id # messages[j].value.id
  /\ \A i \in 1..Len(messages) : messages[i].key = messages[i].value.id
  /\ Len(messages) = handled + ResolvedIn(calls)

C7_Witness ==
  /\ handled >= 1
  /\ ResolvedIn(calls) >= 1
  /\ Len(messages) >= 2

\* C8: the store is append-only: a step never removes an entry nor changes
\* the id, platform, channelId, content or timestamp of a stored message, and
\* it adds entries only for the inbound messages it handles and the sends
\* that succeed in it.
C8_StoreAppendOnly ==
  [][/\ Len(messages') >= Len(messages)
     /\ \A i \in 1..Len(messages) :
          /\ messages'[i].key = messages[i].key
          /\ messages'[i].value.id = messages[i].value.id
          /\ messages'[i].value.platform = messages[i].value.platform
          /\ messages'[i].value.channelId = messages[i].value.channelId
          /\ messages'[i].value.content = messages[i].value.content
          /\ messages'[i].value.timestamp = messages[i].value.timestamp
     /\ Len(messages') - Len(messages) =
          (handled' - handled) + (ResolvedIn(calls') - ResolvedIn(calls))]_vars

\* C8's case: a message is stored and an AI reply, a broadcast and a
\* registration have run since
C8_Witness ==
  /\ \E e \in 1..Len(emitted) : emitted[e].type = "message" /\ emitted[e].message = messages[1].key
  /\ Len(messages) >= 2
  /\ \/ \E t \in 1..Len(crossTasks) : crossTasks[t].state = "returned"
     \/ \E t \in 1..Len(aiTasks) : aiTasks[t].state = "done"

\* C9: a handled inbound message is handed to processWithAI exactly when its
\* content contains '@ai', or starts with '/ai', or an agent is registered
\* under its channelId; with only a 'global' agent registered, 'hello' does
\* not reach the responder and '@ai what's the weather' does.
OnlyGlobalAgent == Len(aiAgents) = 1 /\ aiAgents[1].key = Str(S_global)

C9_AITrigger ==
  [][\A e \in 1..Len(emitted') :
       (e > Len(emitted) /\ emitted'[e].type = "message") =>
         LET m == MapGet(messages', emitted'[e].message)
             started == {t \in 1..Len(aiTasks') : t > Len(aiTasks) /\ aiTasks'[t].message = m.id}
             invoked == {t \in started : aiTasks'[t].state = "awaitAgent"}
         IN /\ (started # {}) <=>
                 \/ \E i \in 1..(Len(m.content[2]) - 2) :
                      SubSeq(m.content[2], i, i + 2) = <<"@", "a", "i">>
                 \/ Len(m.content[2]) >= 3 /\ SubSeq(m.content[2], 1, 3) = <<"/", "a", "i">>
                 \/ \E k \in 1..Len(aiAgents) : aiAgents[k].key = m.channelId
            /\ Cardinality(started) <= 1
            /\ (OnlyGlobalAgent /\ m.content = Str(S_hello)) => invoked = {}
            /\ (OnlyGlobalAgent /\ m.content = Str(S_weather)) => invoked # {}]_vars

\* C9's case: with only a 'global' agent, '@ai what's the weather' has been
\* handed to that agent
C9_Witness ==
  /\ OnlyGlobalAgent
  /\ \E t \in 1..Len(aiTasks) :
       /\ aiTasks[t].content = Str(S_weather)
       /\ aiTasks[t].agent = AgentFor(Str(S_global))
       /\ aiTasks[t].state = "awaitAgent"

\* C10: when the responder's processMessage rejects for an eligible inbound
\* message, the message is stored as it was handled, its message event was
\* emitted once, the rejection is caught, and no reply is sent for it.
C10_AIFailureContained ==
  \A t \in 1..Len(aiTasks) :
    aiTasks[t].response = <<"rejected">> =>
      /\ aiTasks[t].state = "caught"
      /\ MapHas(messages, aiTasks[t].message)
      /\ MapGet(messages, aiTasks[t].message).content = aiTasks[t].content
      /\ Cardinality(EventsOf("message", aiTasks[t].message)) = 1
      /\ aiTasks[t].call = 0
      /\ \A c \in 1..Len(calls) : calls[c].parent # [kind |-> "ai", id |-> t]
      /\ EventsOf("message_sent", aiTasks[t].message) = {}

C10_Witness ==
  \E t \in 1..Len(aiTasks) :
    /\ aiTasks[t].response = <<"rejected">>
    /\ aiTasks[t].state = "caught"
    /\ handled >= 1

\* ------------------------------------------------------------------ C11
AISends(t) == {c \in 1..Len(calls) : calls[c].parent = [kind |-> "ai", id |-> t]}
HasReply(t) == aiTasks[t].response[1] = "string" /\ aiTasks[t].response[2] # <<>>

\* C11: for every eligible inbound message (a processWithAI call), once the
\* responder has returned a non-empty reply the bus has called sendMessage
\* exactly once for it, with the platform and the channel of the inbound
\* message and the reply as content; if no agent was found, the responder has
\* not answered yet, or it returned null or an empty reply, no send is made.
C11_AIReplySentOnce ==
  \A t \in 1..Len(aiTasks) :
    LET task == aiTasks[t]
        m    == MapGet(messages, task.message)
    IN /\ (task.state = "noAgent") = (task.agent = Undefined)
       /\ task.agent # Undefined =>
            task.agent \in {MapGet(aiAgents, m.channelId), MapGet(aiAgents, Str(S_global))}
       /\ task.state = "noAgent" => AISends(t) = {}
       /\ IF HasReply(t)
          THEN /\ Cardinality(AISends(t)) = 1
               /\ \A c \in AISends(t) : /\ calls[c].platform = m.platform
                                         /\ calls[c].channelId = m.channelId
                                         /\ calls[c].content = task.response
          ELSE AISends(t) = {}

\* C11's case: a reply was returned and sent to the inbound message's channel
C11_Witness ==
  \E t \in 1..Len(aiTasks) :
    /\ HasReply(t)
    /\ aiTasks[t].state = "done"
    /\ \E c \in AISends(t) : calls[c].state = "resolved"

\* ------------------------------------------------------------------ C12
InFlight == {t \in 1..Len(aiTasks) : aiTasks[t].state = "awaitAgent"}

\* C12: in every step in which an adapter emits a message while AI calls
\* are in flight, the message is normalized, stored and announced with its
\* message event in that step, and the AI calls are still in flight after it.
C12_InboundNotBlocked ==
  [][ (inbound' = inbound + 1 /\ InFlight # {}) =>
        /\ handled' > handled
        /\ Len(messages') = Len(messages) + (handled' - handled)
        /\ Len(emitted') = Len(emitted) + (handled' - handled)
        /\ \A e \in (Len(emitted) + 1)..Len(emitted') :
             /\ emitted'[e].type = "message"
             /\ MapHas(messages', emitted'[e].message)
             /\ ~MapHas(messages, emitted'[e].message)
        /\ \A t \in InFlight : aiTasks'[t].state = "awaitAgent" ]_vars

\* C12's case: the AI call of a first message is still in flight while a
\* later message has been handled and its reply has already been delivered
C12_Witness ==
  \E t1, t2 \in 1..Len(aiTasks) :
    /\ t1 < t2
    /\ aiTasks[t1].state = "awaitAgent"
    /\ aiTasks[t2].state = "done"
    /\ HasReply(t2)
    /\ \E c \in AISends(t2) : calls[c].state = "resolved"
    /\ MapIdx(messages, aiTasks[t1].message) < MapIdx(messages, aiTasks[t2].message)

\* ------------------------------------------------------------------ C13
EvalsOf(id) == {e \in 1..Len(evals) : evals[e].message = id}
\* the places in the store of the messages that came in from the adapters
InboundIdx == {i \in 1..Len(messages) : EventsOf("message", messages[i].key) # {}}
\* the number of the emission a stored inbound message came from; the
\* adapters' emissions are numbered in the order they are made
EmissionOf(i) == evals[CHOOSE e \in EvalsOf(messages[i].key) : TRUE].emission

\* C13: every message an adapter has emitted is in the store, and the
\* inbound messages stand in the store in the order of their emissions: if
\* message a was emitted before message b (by the same adapter, and even by
\* another one) then a precedes b in the store's insertion order, whatever
\* other adapters' events and AI replies are stored in between.
C13_AdapterOrderKept ==
  /\ \A n \in 1..inbound : \E i \in InboundIdx : EmissionOf(i) = n
  /\ \A i, j \in InboundIdx :
       /\ EmissionOf(i) < EmissionOf(j) => i < j
       /\ (EmissionOf(i) = EmissionOf(j) /\ i # j) =>
             messages[i].value.platform = messages[j].value.platform

\* C13's case: an adapter emitted two messages and the AI reply to the
\* first was stored between them
C13_Witness ==
  \E i, j \in InboundIdx : \E k \in 1..Len(messages) :
    /\ i < k /\ k < j
    /\ EventsOf("message_sent", messages[k].key) # {}
    /\ messages[i].value.platform = messages[j].value.platform
    /\ EmissionOf(i) < EmissionOf(j)

\* ------------------------------------------------------------------ C14
TasksOf(id) == {t \in 1..Len(aiTasks) : aiTasks[t].message = id}

\* C14: for each handled inbound message the bus has emitted exactly one
\* message event, emitted when the message was already in the store (what a
\* subscriber's handler sees) and before the trigger predicate was evaluated;
\* the predicate was evaluated once, before the AI call for the message was
\* started, and the AI processing was started exactly when it held.
C14_StoreEmitThenTrigger ==
  /\ Len(evals) = handled
  /\ Cardinality(InboundIdx) = handled
  /\ \A i \in InboundIdx :
       LET id == messages[i].key IN
       /\ Cardinality(EventsOf("message", id)) = 1
       /\ Cardinality(EvalsOf(id)) = 1
       /\ \A ev \in EventsOf("message", id) : \A e \in EvalsOf(id) :
            /\ emitted[ev].seen
            /\ ev = evals[e].events
            /\ Cardinality(TasksOf(id)) = (IF evals[e].result THEN 1 ELSE 0)
            /\ \A t \in TasksOf(id) : t = evals[e].tasks + 1

\* C14's case: an inbound message was stored and announced, the predicate
\* held and the AI call for it is in flight
C14_Witness ==
  \E i \in InboundIdx : \E e \in EvalsOf(messages[i].key) : \E t \in TasksOf(messages[i].key) :
    /\ evals[e].result
    /\ aiTasks[t].state = "awaitAgent"
    /\ EventsOf("message", messages[i].key) # {}

\* ------------------------------------------------------------------ C15
TimerConnects == TimerConnectsIn(Adapter)
TerminalErrors ==
  {e \in 1..Len(adapterEvents) :
     adapterEvents[e].type = "error" /\ adapterEvents[e].value = MaxAttemptsError}
\* connect() has failed every time so far
AlwaysFails == \A c \in 1..Len(connects) : connects[c].state # "resolved"
\* no timer is pending and no reconnect attempt is in flight
Quiescent == ActiveChains(Adapter) = {}

\* C15: while connect() has always failed, handleReconnect has made at most
\* maxReconnectAttempts connect() attempts and set at most that many timers;
\* the terminal error 'Max reconnect attempts reached' is emitted only when
\* that many timers have been set, and no timer is set after it; and once
\* handleReconnect was started and nothing is pending any more, all the
\* attempts have been made and have failed, and the terminal error was
\* emitted after the last of them failed.
C15_ReconnectBounded ==
  AlwaysFails =>
    /\ Cardinality(TimerConnects) <= maxReconnectAttempts
    /\ Len(scheduled) <= maxReconnectAttempts
    /\ \A e \in TerminalErrors :
         /\ adapterEvents[e].scheduled = maxReconnectAttempts
         /\ Len(scheduled) = maxReconnectAttempts
    /\ (chains # <<>> /\ Quiescent) =>
         /\ Cardinality(TimerConnects) = maxReconnectAttempts
         /\ \E e \in TerminalErrors : adapterEvents[e].failed = maxReconnectAttempts

\* C15's case: handleReconnect was started, every connect() failed, the
\* attempts are used up and the terminal error is emitted
C15_Witness ==
  /\ AlwaysFails
  /\ Len(chains) = 1
  /\ Cardinality(TimerConnects) = maxReconnectAttempts
  /\ TerminalErrors # {}
  /\ Quiescent

\* ------------------------------------------------------------------ C16
\* C16 (as claimed): once the adapter has observed an unexpected disconnect
\* and everything it started by itself has run to its end, with no call of
\* handleReconnect from outside, a new connect() attempt has been made since
\* the disconnect.
C16_DisconnectStartsReconnect ==
  \A d \in 1..Len(drops) :
    (drops[d].observed /\ chains = <<>> /\ Quiescent
       /\ \A c \in 1..Len(connects) : connects[c].state # "pending") =>
      \E c \in (drops[d].connects + 1)..Len(connects) : connects[c].by = "timer"

\* ------------------------------------------------------------------ C17
\* the place of timer i in its retry chain: the timers set since the last
\* reconnect that succeeded, this one included
PlaceInChain(i) ==
  Cardinality({j \in 1..i : scheduled[j].successes = scheduled[i].successes})

\* C17: the k-th timer of a retry chain (the attempts that follow one
\* another without a success between them, k = 1 .. maxReconnectAttempts) is
\* set with delay reconnectDelay * k, so the delays of the chain's successive
\* attempts are strictly increasing.
C17_LinearBackoff ==
  \A i \in 1..Len(scheduled) :
    /\ PlaceInChain(i) \in 1..maxReconnectAttempts
    /\ scheduled[i].delay = reconnectDelay * PlaceInChain(i)
    /\ \A j \in 1..(i - 1) :
         scheduled[j].successes = scheduled[i].successes =>
           scheduled[j].delay < scheduled[i].delay

\* C17's case: a chain has set all its timers, the last with the longest delay
C17_Witness ==
  \E i \in 1..Len(scheduled) :
    /\ PlaceInChain(i) = maxReconnectAttempts
    /\ scheduled[i].delay = reconnectDelay * maxReconnectAttempts
    /\ \E j \in 1..(i - 1) : scheduled[j].delay = reconnectDelay

\* ------------------------------------------------------------ C18 .. C20
Stored == MapValues(messages)
Ascending(r) == \A i, j \in 1..Len(r) : i < j => r[i].timestamp <= r[j].timestamp
\* the times a `since` filter may name, and the limits a caller may give
SinceValues == 0..MaxOps
LimitValues == 0..MaxOps

\* C18: for every platform P, getMessages({platform: P}) holds each stored
\* message of platform P once and no other message, by non-decreasing
\* timestamp.
C18_PlatformFilter ==
  \A P \in Platforms :
    LET r    == getMessages(messages, [platform |-> P])
        want == {i \in 1..Len(Stored) : Stored[i].platform = P}
    IN /\ Len(r) = Cardinality(want)
       /\ SeqToSet(r) = {Stored[i] : i \in want}
       /\ Ascending(r)

\* C18's case: the store holds messages of a platform with different
\* timestamps, which the filter on it returns and the filter on another
\* platform leaves out
C18_Witness ==
  \E i, j \in 1..Len(Stored) :
    /\ Stored[i].platform = "telegram" /\ Stored[j].platform = "telegram"
    /\ Stored[i].timestamp < Stored[j].timestamp
    /\ Len(getMessages(messages, [platform |-> "telegram"])) = Len(Stored)
    /\ getMessages(messages, [platform |-> "slack"]) = <<>>

\* C19: for every time T, getMessages({since: T}) holds each stored message
\* whose timestamp is greater than T once, and no message whose timestamp
\* is T or less.
C19_SinceFilter ==
  \A T \in SinceValues :
    LET r    == getMessages(messages, [since |-> T])
        want == {i \in 1..Len(Stored) : Stored[i].timestamp > T}
    IN /\ Len(r) = Cardinality(want)
       /\ SeqToSet(r) = {Stored[i] : i \in want}

\* C19's case: for some T the store holds a message stamped T, which is left
\* out, and a later one, which is returned
C19_Witness ==
  \E i, j \in 1..Len(Stored) :
    LET T == Stored[i].timestamp
    IN /\ T \in SinceValues
       /\ Stored[j].timestamp > T
       /\ getMessages(messages, [since |-> T]) = <<Stored[j]>>

\* the filters a limit is combined with: none, a platform, or a time
OtherFilters ==
  {<<>>} \cup {[platform |-> P] : P \in Platforms} \cup {[since |-> T] : T \in SinceValues}
Matching(F) ==
  IF "platform" \in DOMAIN F
  THEN SelectSeq(Stored, LAMBDA m : m.platform = F.platform)
  ELSE IF "since" \in DOMAIN F
       THEN SelectSeq(Stored, LAMBDA m : m.timestamp > F.since)
       ELSE Stored
LastN(seq, N) == SubSeq(seq, (IF Len(seq) > N THEN Len(seq) - N ELSE 0) + 1, Len(seq))

\* C20 (as claimed): for every limit N >= 0, alone or with a platform or
\* since filter, the result has at most N messages: the last N, in insertion
\* order, of the messages matching the other filters, by ascending timestamp.
C20_LimitTruncates ==
  \A N \in LimitValues : \A F \in OtherFilters :
    LET r == getMessages(messages, F @@ [limit |-> Num(N)])
    IN /\ Len(r) <= N
       /\ SeqToSet(r) = SeqToSet(LastN(Matching(F), N))
       /\ Ascending(r)

\* ------------------------------------------------------------------ C21
\* among the first n stored messages, the places where a channel of platform
\* P occurs for the first time
FirstSeen(P, n) ==
  {i \in 1..n : /\ Stored[i].platform = P
                /\ \A j \in 1..(i - 1) : ~(/\ Stored[j].platform = P
                                             /\ Stored[j].channelId = Stored[i].channelId)}
\* the channels of platform P among the first n stored messages, each once,
\* in the order they were first seen
ObservedChannels(P, n) ==
  LET idx == FirstSeen(P, n)
  IN [k \in 1..Cardinality(idx) |->
        Stored[CHOOSE i \in idx : Cardinality({j \in idx : j <= i}) = k].channelId]

C22_ChannelAgentFirst ==
  [][\A t \in 1..Len(aiTasks') :
       t > Len(aiTasks) =>
         LET task == aiTasks'[t]
             own  == MapGet(aiAgents, task.channelId)
             glob == MapGet(aiAgents, Str(S_global))
         IN /\ own # Undefined =>
                 /\ task.agent = own
                 /\ task.agent # glob
                 /\ task.state = "awaitAgent"
            /\ (glob # Undefined /\ task.agent = glob) =>
                 /\ own = Undefined
                 /\ \/ Includes(task.content[2], S_ai_at)
                    \/ StartsWith(task.content[2], S_ai_cmd)
            /\ \A u \in 1..Len(aiTasks') :
                 (u > Len(aiTasks) /\ aiTasks'[u].message = task.message) => u = t]_vars

\* C22's case: with a 'global' agent and an agent of the channel both
\* registered, a plain message of the channel is with the channel's agent
C22_Witness ==
  \E t \in 1..Len(aiTasks) :
    /\ MapHas(aiAgents, Str(S_global))
    /\ MapHas(aiAgents, aiTasks[t].channelId)
    /\ aiTasks[t].agent = AgentFor(aiTasks[t].channelId)
    /\ aiTasks[t].state = "awaitAgent"
    /\ aiTasks[t].content = Str(S_hello)

\* ------------------------------------------------------------------ C26
\* C26: the registry holds one adapter per platform; a registration for a
\* platform that has an adapter replaces it, leaving the number of
\* registered platforms and the other platforms' adapters as they were; and
\* every sendMessage that reaches an adapter reaches the one registered for
\* its platform at that time, so after registerIntegration(P, A) and
\* registerIntegration(P, B) the sends for P go to B.
C26_ReregistrationReplaces ==
  [][/\ \A i, j \in 1..Len(integrations') :
          i # j => integrations'[i].key # integrations'[j].key
     /\ \A a \in Adapters :
          listeners'[a] # listeners[a] =>
            LET P == listeners'[a][Len(listeners'[a])]
            IN /\ MapGet(integrations', P) = AdapterRef(a)
               /\ Len(integrations') = Len(integrations) + (IF MapHas(integrations, P) THEN 0 ELSE 1)
               /\ \A i \in 1..Len(integrations) :
                    /\ integrations'[i].key = integrations[i].key
                    /\ integrations[i].key # P => integrations'[i].value = integrations[i].value
     /\ \A i \in 1..Len(adapterSends') :
          i > Len(adapterSends) =>
            AdapterRef(adapterSends'[i].adapter)
              = MapGet(integrations, calls'[adapterSends'[i].call].platform)]_vars

\* C26's case: a second adapter was registered for a platform that had one,
\* and a send for the platform went to the second
C26_Witness ==
  \E P \in Platforms :
    /\ listeners[<<P, 1>>] # <<>>
    /\ MapGet(integrations, P) = AdapterRef(<<P, 2>>)
    /\ Len(integrations) = 1
    /\ \E i \in 1..Len(adapterSends) :
         /\ adapterSends[i].adapter = <<P, 2>>
         /\ calls[adapterSends[i].call].platform = P

\* ------------------------------------------------------------------ C29
SamePair(i, j) ==
  /\ Stored[i].platform = Stored[j].platform
  /\ Stored[i].channelId = Stored[j].channelId
\* the places where a (platform, channelId) pair occurs for the first time
PairFirst == {i \in 1..Len(Stored) : \A j \in 1..(i - 1) : ~SamePair(i, j)}
SumCounts(r) ==
  LET F[k \in 0..Len(r)] == IF k = 0 THEN 0 ELSE F[k - 1] + r[k].messageCount
  IN F[Len(r)]

\* C29 (as claimed): getChannels returns one entry for each distinct
\* (platform, channelId) pair among the stored messages; the entry's
\* messageCount is the number of stored messages with that pair, so that the
\* counts sum to the size of the store, and its lastMessage is the greatest
\* timestamp among them.
C29_ChannelsPerPair ==
  LET r == getChannels(messages)
  IN /\ Len(r) = Cardinality(PairFirst)
     /\ SumCounts(r) = Len(Stored)
     /\ \A i \in PairFirst :
          LET same == {j \in 1..Len(Stored) : SamePair(i, j)}
              ks   == {k \in 1..Len(r) : /\ r[k].platform = Stored[i].platform
                                         /\ r[k].id = Stored[i].channelId}
          IN /\ Cardinality(ks) = 1
             /\ \A k \in ks :
                  /\ r[k].messageCount = Cardinality(same)
                  /\ \E j \in same : Stored[j].timestamp = r[k].lastMessage
                  /\ \A j \in same : Stored[j].timestamp <= r[k].lastMessage

\* ------------------------------------------------------------------ C23
\* the places in the store of the messages that came from emission n
StoredFrom(n) ==
  {i \in 1..Len(messages) : \E e \in EvalsOf(messages[i].key) : evals[e].emission = n}
IsEdit(n) == Get(delivered[n].raw, "isEdit") = Bool(TRUE)
NativeIdOf(n) ==
  IF KindOf(delivered[n].adapter) = "telegram"
  THEN Get(delivered[n].raw, "message_id") ELSE Get(delivered[n].raw, "id")
\* the earlier emissions of the message that emission n edits
EarlierOf(n) ==
  {o \in 1..(n - 1) : /\ delivered[o].adapter = delivered[n].adapter
                      /\ NativeIdOf(o) = NativeIdOf(n)}
\* the stored message at place i is what its own payload was normalized to
AsNormalized(i, n) ==
  LET m == messages[i].value
  IN m = normalizeMessage(KindOf(delivered[n].adapter), delivered[n].raw,
                          m.id[2][2] - 1, m.timestamp).message

\* C23 (as claimed): an inbound edit (a payload with isEdit = true) has put
\* a new message in the store, under an id no other stored message has,
\* whose isEdit flag is true, and the messages stored before for the edited
\* message are as they were stored.
C23_EditIsNewMessage ==
  \A n \in 1..Len(delivered) :
    IsEdit(n) =>
      /\ Cardinality(StoredFrom(n)) = 1
      /\ \A i \in StoredFrom(n) :
           /\ \A j \in 1..Len(messages) : j # i => messages[j].key # messages[i].key
           /\ \A o \in EarlierOf(n) : \A j \in StoredFrom(o) : j < i
           /\ Get(messages[i].value, "isEdit") = Bool(TRUE)
      /\ \A o \in EarlierOf(n) :
           /\ StoredFrom(o) # {}
           /\ \A j \in StoredFrom(o) : AsNormalized(j, o)

\* ------------------------------------------------------------------ C30
TelegramEmissions == {n \in 1..Len(delivered) : KindOf(delivered[n].adapter) = "telegram"}
MediaFields == {"photo", "video", "audio", "voice", "document", "sticker"}
\* text if present, else caption, else '[Media]'
ContentOf(raw) ==
  IF "text" \in DOMAIN raw THEN raw.text
  ELSE IF "caption" \in DOMAIN raw THEN raw.caption
  ELSE Str(S_media)

\* C30 (as claimed): a Telegram payload is stored as one message with
\* author.id = from.id, author.username = from.username, channelId =
\* chat.id, channelName = chat.title, messageId = message_id, content = text
\* if present, else caption, else '[Media]', and type 'text' when the payload
\* has no media field.
C30_TelegramMapping ==
  \A n \in TelegramEmissions :
    LET raw == delivered[n].raw IN
    /\ Cardinality(StoredFrom(n)) = 1
    /\ \A i \in StoredFrom(n) :
         LET m == messages[i].value IN
         /\ m.platform = "telegram"
         /\ m.author.id = Prop(raw.from, "id")
         /\ m.author.username = Prop(raw.from, "username")
         /\ m.channelId = Prop(raw.chat, "id")
         /\ m.channelName = Prop(raw.chat, "title")
         /\ m.messageId = raw.message_id
         /\ m.content = ContentOf(raw)
         /\ (MediaFields \cap DOMAIN raw = {}) => m.type = Str(<<"text">>)

\* C30 (amended): as claimed, but channelName is chat.title when the chat
\* has a title and chat.first_name when it has none (a private chat), and
\* the type of a payload with a media field is the name of that field.
C30_TelegramMappingWithFallback ==
  \A n \in TelegramEmissions :
    LET raw == delivered[n].raw IN
    /\ Cardinality(StoredFrom(n)) = 1
    /\ \A i \in StoredFrom(n) :
         LET m == messages[i].value IN
         /\ m.platform = "telegram"
         /\ m.author.id = Prop(raw.from, "id")
         /\ m.author.username = Prop(raw.from, "username")
         /\ m.channelId = Prop(raw.chat, "id")
         /\ m.channelName = (IF "title" \in DOMAIN raw.chat[2]
                             THEN raw.chat[2].title ELSE raw.chat[2].first_name)
         /\ m.messageId = raw.message_id
         /\ m.content = ContentOf(raw)
         /\ (MediaFields \cap DOMAIN raw = {}) => m.type = Str(<<"text">>)
         /\ \A f \in MediaFields \cap DOMAIN raw : m.type = Str(<<f>>)

\* C30's case: a message of a private chat with a caption and no text is
\* stored beside a text message of a group
C30_Witness ==
  \E n, k \in TelegramEmissions : \E i \in StoredFrom(n) : \E j \in StoredFrom(k) :
    /\ "title" \notin DOMAIN delivered[n].raw.chat[2]
    /\ "text" \notin DOMAIN delivered[n].raw
    /\ messages[i].value.content = Str(S_hi)
    /\ messages[i].value.channelName = Str(S_alice)
    /\ messages[j].value.channelName = Str(S_team)
    /\ messages[j].value.content = Str(S_hello)
    /\ messages[j].value.type = Str(<<"text">>)

\* C27: when connect() fails, without the tokens or in the SDK, the call is
\* rejected to its caller, the adapter sets no reconnect timer, isConnected()
\* stays false, a later connect() is a fresh attempt (it starts the SDK
\* whenever the tokens are there), and a sendMessage made while the adapter
\* is in that state throws without asking the SDK to send.
FailedConnects == {c \in 1..Len(connects) : connects[c].state = "rejected"}

C27_FailedConnectLeavesReady ==
  /\ \A c \in FailedConnects :
        /\ \E e \in 1..Len(adapterEvents) :
              adapterEvents[e].type = "error" /\ adapterEvents[e].value = ConnectError
        /\ connects[c].by # "timer" => Len(scheduled) = connects[c].scheduled
        /\ \A d \in (c + 1)..Len(connects) :
              connects[d].launched = validateConfig(adapterPlatform, config)
  /\ ConnectFailed(Adapter) => ~connected
  /\ scheduled = <<>>
  /\ \A s \in 1..Len(sendAttempts) : sendAttempts[s].failed => ~sendAttempts[s].reached

\* C28: healthCheck never throws, whatever the adapter's state (never
\* connected, connected, disconnected) and whether or not the SDK answers
\* its probe: its result has the platform's name and the connected flag as
\* they are when it is called, and a probe that fails is reported as the
\* `error` field of the result.
C28_HealthCheckNeverThrows ==
  [][\A probeFails \in BOOLEAN :
       HealthCheck(probeFails) =>
         LET check == checks'[Len(checks')]
         IN /\ Len(checks') = Len(checks) + 1
            /\ ~check.threw
            /\ {"platform", "connected", "lastActivity"} \subseteq DOMAIN check.result
            /\ check.result.platform = adapterPlatform
            /\ check.result.connected = connected
            /\ (check.probed /\ check.probeFails) => "error" \in DOMAIN check.result
            /\ ~(check.probed /\ check.probeFails) => "error" \notin DOMAIN check.result]_vars

\* the SDK has failed to answer the probe of a connected adapter, and the
\* result of that healthCheck reports it
C28_Witness ==
  \E i \in 1..Len(checks) :
    /\ checks[i].probed /\ checks[i].probeFails
    /\ checks[i].result.connected
    /\ checks[i].result.error = ProbeError

\* C24: once an adapter has been connected and registered by the server's
\* connectPlatform, the bus has emitted exactly one integration_status event
\* {platform, status} for each status the adapter has emitted (connected,
\* disconnected, reconnecting), in the same order, the first 'connected'
\* included.
ConnectedByServer ==
  /\ connects # <<>>
  /\ connects[1].by = "server"
  /\ connects[1].state = "resolved"

Announcement(platform, status) == [platform |-> platform, status |-> status]

StatusEvents == SelectSeq(adapterEvents, LAMBDA e : e.type = "status")
Announced == SelectSeq(emitted, LAMBDA e : e.type = "integration_status")

C24_StatusAnnouncedOnce ==
  ConnectedByServer =>
    /\ Len(Announced) = Len(StatusEvents)
    /\ \A i \in 1..Len(StatusEvents) :
          /\ StatusEvents[i].received = 1
          /\ Announcement(Announced[i].platform, Announced[i].status)
               = Announcement(adapterPlatform, StatusEvents[i].value)

\* C25: every 'error' event that an adapter registered with the bus emits,
\* for a failed connect() or for an error of the running SDK, is received by
\* a listener of the bus; and no connect() call is made by the bus.
C25_ErrorsReachBus ==
  /\ \A e \in 1..Len(adapterEvents) :
        (adapterEvents[e].type = "error" /\ adapterEvents[e].registered)
          => adapterEvents[e].received >= 1
  /\ \A c \in 1..Len(connects) : connects[c].by \in {"server", "caller", "timer"}

\* C31: the bus keeps listening to every adapter it was ever given. A message
\* emitted by an adapter is normalized and stored once for each time the
\* adapter was registered, under the platform it was registered for, whether
\* or not the registry still names that adapter for the platform: each copy
\* has an id of its own and is announced by a 'message' event of its own.
C31_StaleListenersKept ==
  [][ Len(delivered') = Len(delivered) + 1 =>
        LET a == delivered'[Len(delivered')].adapter
            n == Len(listeners[a])
        IN /\ n >= 1
           /\ Len(messages') = Len(messages) + n
           /\ Len(emitted') = Len(emitted) + n
           /\ \A i \in 1..n :
                LET stored == messages'[Len(messages) + i]
                    event  == emitted'[Len(emitted) + i]
                IN /\ stored.value.platform = listeners[a][i]
                   /\ stored.value.id = stored.key
                   /\ ~MapHas(messages, stored.key)
                   /\ \A j \in 1..n : j # i => messages'[Len(messages) + j].key # stored.key
                   /\ event.type = "message"
                   /\ event.message = stored.key ]_vars

\* C31's cases: an adapter that the registry no longer names for its platform
\* has emitted a message, which is in the store; or an adapter registered
\* twice has emitted a message, which is in the store twice
C31_Witness ==
  \E P \in Platforms :
    /\ Len(delivered) = 1
    /\ delivered[1].adapter = <<P, 1>>
    /\ \/ /\ MapGet(integrations, P) = AdapterRef(<<P, 2>>)
          /\ Len(messages) = 1
          /\ messages[1].value.platform = P
       \/ /\ listeners[<<P, 1>>] = <<P, P>>
          /\ Len(messages) = 2
          /\ messages[1].key # messages[2].key
          /\ Len(SelectSeq(emitted, LAMBDA e : e.type = "message")) = 2

\* C39: the history the agent keeps for a conversation never has more than
\* maxHistory entries, whatever processMessage calls have been made and
\* however they overlapped while the model was generating.
C39_HistoryBounded ==
  \A i \in 1..Len(conversationHistory) : Len(conversationHistory[i].value) <= maxHistory

\* C32: with the AIAgent as the responder, when the model call fails for an
\* eligible inbound message (processMessage then returns through its catch),
\* the bus makes no sendMessage call for that inbound message.
GenerationFailed(t) == aiTasks[t].response = SorryResponse

C32_FailedGenerationSendsNothing ==
  \A t \in 1..Len(aiTasks) : GenerationFailed(t) => AISends(t) = {}

\* C33: once the command ai_config with disable has been handled for a
\* channel of a platform, the bus makes no AI reply to that channel for the
\* messages that come in on it afterwards, until a later ai_config enables
\* the channel again.
EmissionOfTask(t) == evals[CHOOSE e \in EvalsOf(aiTasks[t].message) : TRUE].emission

DisabledAt(key, n) ==
  \E i \in 1..Len(aiConfigs) :
    /\ aiConfigs[i].targeted /\ aiConfigs[i].disable
    /\ aiConfigs[i].key = key
    /\ aiConfigs[i].inbound < n
    /\ \A j \in (i + 1)..Len(aiConfigs) :
         ~(aiConfigs[j].targeted /\ ~aiConfigs[j].disable /\ aiConfigs[j].key = key
           /\ aiConfigs[j].inbound < n)

C33_DisabledChannelGetsNoReply ==
  \A t \in 1..Len(aiTasks) :
    DisabledAt(AgentKey(aiTasks[t].platform, aiTasks[t].channelId), EmissionOfTask(t))
      => AISends(t) = {}

\* ------------------------------------------------------------------ C37
\* the connect() calls that succeeded, as the 'connected' events they emitted
SuccessEvents ==
  {e \in 1..Len(adapterEvents) :
     adapterEvents[e].type = "status" /\ adapterEvents[e].value = "connected"}
\* the k-th connect() attempt of handleReconnect's timers was started after
\* this many connects had succeeded
SuccessesBefore(k) == Cardinality({e \in SuccessEvents : adapterEvents[e].attempts < k})
AttemptNumbers == 1..Cardinality(TimerConnects)

\* the attempts made without a success between them are at most
\* maxReconnectAttempts
AttemptsBoundedBetweenSuccesses ==
  \A k \in AttemptNumbers :
    Cardinality({j \in AttemptNumbers : SuccessesBefore(j) = SuccessesBefore(k)})
      <= maxReconnectAttempts

\* between two terminal errors a connect() has succeeded
OneTerminalErrorPerExhaustion ==
  \A e1, e2 \in TerminalErrors :
    e1 < e2 => \E s \in SuccessEvents : e1 < s /\ s < e2

\* C37: with handleReconnect called from outside while an earlier retry
\* chain is pending, the connect() attempts made without a success between
\* them never exceed maxReconnectAttempts, and the terminal error
\* 'Max reconnect attempts reached' is emitted once per exhaustion.
C37_OverlappingChainsShareBound ==
  Len(chains) >= 2 => (AttemptsBoundedBetweenSuccesses /\ OneTerminalErrorPerExhaustion)

\* ------------------------------------------------------------------ C36
\* the adapters of a platform that the bus listens to
ListenedTo(p) == {a \in Adapters : KindOf(a) = p /\ listeners[a] # <<>>}

\* C36: in every step in which processWithAI makes its reply attempt, the
\* attempt goes to the adapter that is registered for the platform at that
\* time, whichever adapter emitted the inbound message; with none registered
\* it fails with the 'No integration found' error, which processWithAI
\* catches; the step leaves the store, the events, the registry, the
\* listeners, the count of handled inbound messages, the other sendMessage
\* calls and the other processWithAI calls as they were.
C36_ReplyAfterUnregister ==
  [][\A c \in 1..Len(calls') :
       (c > Len(calls) /\ calls'[c].parent.kind = "ai") =>
         LET t == calls'[c].parent.id
             p == calls'[c].platform
         IN /\ p = aiTasks[t].platform
            /\ IF MapHas(integrations, p)
               THEN /\ calls'[c].state = "awaitAdapter"
                    /\ calls'[c].adapter = MapGet(integrations, p)
                    /\ aiTasks'[t].state = "awaitSend"
                    /\ Len(adapterSends') = Len(adapterSends) + 1
                    /\ adapterSends'[Len(adapterSends')].adapter = MapGet(integrations, p)[2]
                    /\ adapterSends'[Len(adapterSends')].call = c
               ELSE /\ calls'[c].state = "rejected"
                    /\ calls'[c].value = NoIntegrationError(p)
                    /\ aiTasks'[t].state = "caught"
                    /\ adapterSends' = adapterSends
            /\ messages' = messages
            /\ emitted' = emitted
            /\ integrations' = integrations
            /\ listeners' = listeners
            /\ handled' = handled
            /\ Len(calls') = Len(calls) + 1
            /\ \A d \in 1..Len(calls) : calls'[d] = calls[d]
            /\ \A u \in 1..Len(aiTasks) : u # t => aiTasks'[u] = aiTasks[u]]_vars

\* C36's case: Telegram was unregistered by disconnectPlatform while the AI
\* call for a Telegram message was in flight; the reply attempt failed with
\* the unknown-platform error and was caught, and Slack is still registered
C36_Witness ==
  \E t \in 1..Len(aiTasks), d \in 1..Len(disconnecting) :
    /\ aiTasks[t].platform = "telegram"
    /\ disconnecting[d].platform = "telegram"
    /\ disconnecting[d].state = "done"
    /\ HasReply(t)
    /\ aiTasks[t].state = "caught"
    /\ \E c \in AISends(t) : calls[c].value = NoIntegrationError("telegram")
    /\ MapHas(integrations, "slack")
    /\ MapHas(messages, aiTasks[t].message)

\* ------------------------------------------------------------------ C35
\* the channel of the platform that an id names: the platform's API takes
\* the chat id 1 and the text "1" for the same chat
RealChannel(channelId) == TemplateString(channelId)

\* C35: a sendCrossChannelMessage call without options.channels makes, for
\* each platform, at most one sendMessage call per real channel.
C35_BroadcastOncePerChannel ==
  \A t \in 1..Len(crossTasks) :
    crossTasks[t].optChannels = Undefined =>
      \A c, d \in 1..Len(calls) :
        (/\ c < d
         /\ calls[c].parent = [kind |-> "cross", id |-> t]
         /\ calls[d].parent = [kind |-> "cross", id |-> t]
         /\ calls[c].platform = calls[d].platform)
          => RealChannel(calls[c].channelId) # RealChannel(calls[d].channelId)

\* ------------------------------------------------------------------ C38
\* C38: the Slack adapter emits the events in the order the SDK delivered
\* them: of two events that were both emitted, the one delivered first was
\* emitted first.
C38_SlackOrderKept ==
  \A j, k \in 1..Len(acking) :
    (j < k /\ acking[j].state = "emitted" /\ acking[k].state = "emitted")
      => acking[j].emission < acking[k].emission

\* ------------------------------------------------------------------ C34
\* the Slack events that carried a message the bus had sent itself and that
\* the adapter emitted
EmittedEchoes == {k \in 1..Len(acking) : acking[k].echoOf # 0 /\ acking[k].state = "emitted"}

\* sendMessage does not evaluate the AI trigger for what it stores
C34_SendsNotEvaluated ==
  \A c \in 1..Len(calls) : calls[c].stored # Undefined => EvalsOf(calls[c].stored) = {}

\* C34: no processWithAI call is made for a message the bus sent itself,
\* neither when sendMessage stores it nor when the platform hands it back to
\* the adapter; every processWithAI call makes at most one reply.
C34_OwnMessagesNotAnswered ==
  /\ C34_SendsNotEvaluated
  /\ \A t \in 1..Len(aiTasks) :
       /\ Cardinality(AISends(t)) <= 1
       /\ \A k \in EmittedEchoes : acking[k].emission # EmissionOfTask(t)

====
